---- MODULE Spec2Model ----
(***************************************************************************)
(* Payment and installment management of buildingstore-be:                 *)
(*   - the store (OptimizedPembayaranRepository, PembayaranRepository):    *)
(*     SQL statements over the two relations payments and installments,    *)
(*     the LEFT JOIN reads and the row aggregation;                        *)
(*   - the service with its TTL cache (OptimizedPaymentService).           *)
(* Strings written to and read from the database are modelled as what the  *)
(* conversions produce (enum -> upper-case text, DateTime -> RFC 3339      *)
(* text), so that a write followed by a read goes through both directions. *)
(***************************************************************************)
EXTENDS Integers, Sequences, FiniteSets, TLC

VARIABLES
    db,       \* the database: [payments: set of rows, installments: set of rows]
    cache,    \* result_cache: a map payment id -> CachedPayment
    now,      \* Utc::now(), in whole seconds
    uuid,     \* how many Uuid::new_v4() installment ids have been generated
    call,     \* the last call that returned: operation, arguments, result
    rows,     \* a flat sequence of joined rows handed to the aggregation
    agg,      \* the aggregation's result for rows (<<>> before it ran)
    pc,       \* concurrent calls: where each call stands
    loc       \* concurrent calls: each call's local variables

vars == <<db, cache, now, uuid, call, rows, agg, pc, loc>>

-----------------------------------------------------------------------------
(* Bounds of the model *)

MaxRows == 3      \* longest joined-row sequence given to the aggregation
MaxTicks == 2     \* how often the clock advances
MaxUuid == 1      \* how many installment ids the program generates
MaxCalls == 2     \* how many calls each concurrent worker makes

(* Program constant: the TTL of every entry the service caches *)
TTL_SECONDS == 300

-----------------------------------------------------------------------------
(* Result<T, E> and Option<T> *)

Ok(v) == [ok |-> TRUE, val |-> v]
Err(e) == [ok |-> FALSE, err |-> e]
None == <<>>
Some(v) == <<v>>

\* the value () of a Result<(), E>
Unit == [unit |-> TRUE]

RowNotFound == [sqlx |-> "RowNotFound"]
ParseError == [sqlx |-> "chrono::ParseError"]
DatabaseErr == [sqlx |-> "Database"]

Range(s) == {s[i] : i \in DOMAIN s}

-----------------------------------------------------------------------------
(* Enum <-> text conversions *)

PaymentMethods == {"Cash", "CreditCard", "BankTransfer", "EWallet"}
PaymentStatuses == {"Paid", "Installment"}

MethodToString(m) ==
    CASE m = "Cash" -> "CASH"
      [] m = "CreditCard" -> "CREDIT_CARD"
      [] m = "BankTransfer" -> "BANK_TRANSFER"
      [] m = "EWallet" -> "E_WALLET"

StatusToString(s) ==
    CASE s = "Paid" -> "LUNAS"
      [] s = "Installment" -> "CICILAN"

\* OptimizedPembayaranRepository::parse_payment_method
parse_payment_method(method_str) ==
    CASE method_str = "CASH" -> Ok("Cash")
      [] method_str = "CREDIT_CARD" -> Ok("CreditCard")
      [] method_str = "BANK_TRANSFER" -> Ok("BankTransfer")
      [] method_str = "E_WALLET" -> Ok("EWallet")
      [] OTHER -> Err(RowNotFound)

\* PaymentStatus::from_string
from_string(status_str) ==
    CASE status_str = "LUNAS" -> Some("Paid")
      [] status_str = "CICILAN" -> Some("Installment")
      [] OTHER -> None

-----------------------------------------------------------------------------
(* DateTime<Utc> <-> text.  A DateTime is [secs, frac]: whole seconds and  *)
(* the sub-second part (in milliseconds).  A date text is [fmt, secs,      *)
(* frac]: fmt names its shape,                                             *)
(*   "rfc3339"    2024-01-01T00:00:00.500+00:00                            *)
(*   "naive_frac" 2024-01-01 00:00:00.500                                  *)
(*   "naive_sec"  2024-01-01 00:00:00        (frac is 0)                   *)
(*   anything else is text in none of these shapes.                        *)

DT(s, f) == [secs |-> s, frac |-> f]

to_rfc3339_secs(dt) == [fmt |-> "rfc3339", secs |-> dt.secs, frac |-> 0]

to_rfc3339(dt) == [fmt |-> "rfc3339", secs |-> dt.secs, frac |-> dt.frac]

parse_from_rfc3339(s) ==
    IF s.fmt = "rfc3339" THEN Ok(DT(s.secs, s.frac)) ELSE Err(ParseError)

\* NaiveDateTime::parse_from_str(_, "%Y-%m-%d %H:%M:%S%.f"): %.f also reads
\* an absent fraction
parse_naive_frac(s) ==
    IF s.fmt \in {"naive_frac", "naive_sec"} THEN Ok(DT(s.secs, s.frac))
    ELSE Err(ParseError)

\* NaiveDateTime::parse_from_str(_, "%Y-%m-%d %H:%M:%S")
parse_naive_sec(s) ==
    IF s.fmt = "naive_sec" THEN Ok(DT(s.secs, 0)) ELSE Err(ParseError)

parse_datetime(datetime_str) ==
    LET a == parse_from_rfc3339(datetime_str)
        b == parse_naive_frac(datetime_str)
        c == parse_naive_sec(datetime_str)
    IN IF a.ok THEN a
       ELSE IF b.ok THEN b
       ELSE IF c.ok THEN c
       ELSE Err(RowNotFound)

\* text order of two RFC 3339 strings of the same offset (ORDER BY on a TEXT
\* column): by the seconds, then '+' (no fraction) before '.' and the digits
DateTextLeq(a, b) ==
    \/ a.secs < b.secs
    \/ a.secs = b.secs /\ a.frac <= b.frac

-----------------------------------------------------------------------------
(* Rows -> domain objects *)

\* parse_row_to_payment_base: the payment columns of a (joined) row
parse_row_to_payment_base(row) ==
    LET payment_method == parse_payment_method(row.method)
        payment_status == from_string(row.status)
        payment_date == parse_datetime(row.payment_date)
        due_date == IF row.due_date = None THEN Ok(None)
                    ELSE LET d == parse_datetime(row.due_date[1])
                         IN IF d.ok THEN Ok(Some(d.val)) ELSE d
    IN IF ~payment_method.ok THEN payment_method
       ELSE IF payment_status = None THEN Err(RowNotFound)
       ELSE IF ~payment_date.ok THEN payment_date
       ELSE IF ~due_date.ok THEN due_date
       ELSE Ok([id |-> row.id,
                transaction_id |-> row.transaction_id,
                amount |-> row.amount,
                method |-> payment_method.val,
                status |-> payment_status[1],
                payment_date |-> payment_date.val,
                installments |-> <<>>,
                due_date |-> due_date.val])

\* a faulty variant: a row without installment side parses as an installment
\* of default values
try_parse_installment_null_as_default(row) ==
    IF row.inst_id = None
    THEN Ok([id |-> "", payment_id |-> "", amount |-> 0, payment_date |-> DT(0, 0)])
    ELSE LET payment_date == parse_datetime(row.inst_date[1])
         IN IF ~payment_date.ok THEN payment_date
            ELSE Ok([id |-> row.inst_id[1],
                     payment_id |-> row.inst_payment_id[1],
                     amount |-> row.inst_amount[1],
                     payment_date |-> payment_date.val])

\* try_parse_installment_from_joined_row: an error when the row has no
\* installment side (inst_id is NULL) or its date does not parse
try_parse_installment_from_joined_row(row) ==
    IF row.inst_id = None THEN Err(RowNotFound)
    ELSE LET payment_date == parse_datetime(row.inst_date[1])
         IN IF ~payment_date.ok THEN payment_date
            ELSE Ok([id |-> row.inst_id[1],
                     payment_id |-> row.inst_payment_id[1],
                     amount |-> row.inst_amount[1],
                     payment_date |-> payment_date.val])

RECURSIVE InstallmentsOfRows(_)
\* the loop of parse_joined_rows_to_payment: every row that parses as an
\* installment, in row order
InstallmentsOfRows(rs) ==
    IF rs = <<>> THEN <<>>
    ELSE LET inst == try_parse_installment_from_joined_row(Head(rs))
         IN IF inst.ok THEN <<inst.val>> \o InstallmentsOfRows(Tail(rs))
            ELSE InstallmentsOfRows(Tail(rs))

parse_joined_rows_to_payment(rs) ==
    IF rs = <<>> THEN Err(RowNotFound)
    ELSE LET payment == parse_row_to_payment_base(rs[1])
         IN IF ~payment.ok THEN payment
            ELSE Ok([payment.val EXCEPT !.installments = InstallmentsOfRows(rs)])

RECURSIVE GroupLoop(_, _, _)
\* the loop of parse_grouped_rows_to_payments over the rows left, with
\* payments_map and payment_order as they stand
GroupLoop(rs, payments_map, payment_order) ==
    IF rs = <<>> THEN Ok([map |-> payments_map, order |-> payment_order])
    ELSE
      LET row == Head(rs)
          payment_id == row.id
          seen == payment_id \in DOMAIN payments_map
          payment == parse_row_to_payment_base(row)
      IN IF ~seen /\ ~payment.ok THEN payment
         ELSE
           LET map1 == IF seen THEN payments_map
                       ELSE payments_map @@ (payment_id :> payment.val)
               order1 == IF seen THEN payment_order
                         ELSE Append(payment_order, payment_id)
               installment == try_parse_installment_from_joined_row(row)
               map2 == IF installment.ok
                       THEN [map1 EXCEPT ![payment_id].installments =
                                            Append(@, installment.val)]
                       ELSE map1
           IN GroupLoop(Tail(rs), map2, order1)

RECURSIVE GroupLoopReinsert(_, _, _)
\* a faulty variant: the payment is inserted for every row, seen before or not, so
\* the installments collected so far are lost
GroupLoopReinsert(rs, payments_map, payment_order) ==
    IF rs = <<>> THEN Ok([map |-> payments_map, order |-> payment_order])
    ELSE
      LET row == Head(rs)
          payment_id == row.id
          seen == payment_id \in DOMAIN payments_map
          payment == parse_row_to_payment_base(row)
      IN IF ~payment.ok THEN payment
         ELSE
           LET map1 == [k \in DOMAIN payments_map \cup {payment_id} |->
                           IF k = payment_id THEN payment.val
                           ELSE payments_map[k]]
               order1 == IF seen THEN payment_order
                         ELSE Append(payment_order, payment_id)
               installment == try_parse_installment_from_joined_row(row)
               map2 == IF installment.ok
                       THEN [map1 EXCEPT ![payment_id].installments =
                                            Append(@, installment.val)]
                       ELSE map1
           IN GroupLoopReinsert(Tail(rs), map2, order1)

EmptyMap == [k \in {} |-> <<>>]

parse_grouped_rows_reinsert(rs) ==
    LET r == GroupLoopReinsert(rs, EmptyMap, <<>>)
    IN IF ~r.ok THEN r
       ELSE Ok([k \in 1..Len(r.val.order) |-> r.val.map[r.val.order[k]]])

\* parse_grouped_rows_to_payments: the payments in payment_order
parse_grouped_rows_to_payments(rs) ==
    LET r == GroupLoop(rs, EmptyMap, <<>>)
    IN IF ~r.ok THEN r
       ELSE Ok([k \in 1..Len(r.val.order) |-> r.val.map[r.val.order[k]]])

-----------------------------------------------------------------------------
(* The database.  db.payments and db.installments are the two relations;   *)
(* a statement is an operator from a database to Ok(database) or Err: a    *)
(* transaction applies its statements to a copy and the commit installs    *)
(* the copy, so an error or a drop before the commit leaves db as it was.  *)

EmptyDb == [payments |-> {}, installments |-> {}]

\* the values bound by INSERT INTO payments / UPDATE payments
PaymentRow(payment) ==
    [id |-> payment.id,
     transaction_id |-> payment.transaction_id,
     amount |-> payment.amount,
     method |-> MethodToString(payment.method),
     status |-> StatusToString(payment.status),
     payment_date |-> to_rfc3339(payment.payment_date),
     due_date |-> IF payment.due_date = None THEN None
                  ELSE Some(to_rfc3339(payment.due_date[1]))]

\* the values bound by INSERT INTO installments
InstallmentRow(installment) ==
    [id |-> installment.id,
     payment_id |-> installment.payment_id,
     amount |-> installment.amount,
     payment_date |-> to_rfc3339(installment.payment_date)]

HasPayment(d, id) == \E p \in d.payments : p.id = id

\* INSERT INTO payments: id is the primary key
InsertPayment(d, payment) ==
    IF HasPayment(d, payment.id) THEN Err(DatabaseErr)
    ELSE Ok([d EXCEPT !.payments = @ \cup {PaymentRow(payment)}])

\* a faulty variant: installments.payment_id references nothing
insert_installment_tx_unreferenced(d, installment) ==
    IF \E i \in d.installments : i.id = installment.id
    THEN Err(DatabaseErr)
    ELSE Ok([d EXCEPT !.installments = @ \cup {InstallmentRow(installment)}])

\* INSERT INTO installments: id is the primary key, payment_id references
\* payments(id)
insert_installment_tx(d, installment) ==
    IF \/ \E i \in d.installments : i.id = installment.id
       \/ ~HasPayment(d, installment.payment_id)
    THEN Err(DatabaseErr)
    ELSE Ok([d EXCEPT !.installments = @ \cup {InstallmentRow(installment)}])

RECURSIVE batch_insert_installments(_, _)
batch_insert_installments(d, installments) ==
    IF installments = <<>> THEN Ok(d)
    ELSE LET r == insert_installment_tx(d, Head(installments))
         IN IF ~r.ok THEN r
            ELSE batch_insert_installments(r.val, Tail(installments))

\* a faulty variant: the UPDATE inserts the row when none has the id
UpsertPaymentRow(d, payment) ==
    [d EXCEPT !.payments =
        {p \in @ : p.id # payment.id} \cup {PaymentRow(payment)}]

\* UPDATE payments SET transaction_id, amount, method, status, payment_date,
\* due_date WHERE id: no row matching is no error
UpdatePaymentRow(d, payment) ==
    [d EXCEPT !.payments =
        {IF p.id = payment.id THEN PaymentRow(payment) ELSE p : p \in @}]

\* UPDATE payments SET status WHERE id
UpdateStatusRow(d, payment_id, new_status) ==
    [d EXCEPT !.payments =
        {IF p.id = payment_id
         THEN [p EXCEPT !.status = StatusToString(new_status)]
         ELSE p : p \in @}]

\* DELETE FROM installments WHERE payment_id
DeleteInstallmentRows(d, id) ==
    [d EXCEPT !.installments = {i \in @ : i.payment_id # id}]

\* DELETE FROM payments WHERE id (ON DELETE CASCADE on installments)
DeletePaymentRow(d, id) ==
    [d EXCEPT !.payments = {p \in @ : p.id # id},
              !.installments = {i \in @ : i.payment_id # id}]

\* one row of payments p LEFT JOIN installments i ON p.id = i.payment_id
JoinedRow(p, i) ==
    [id |-> p.id, transaction_id |-> p.transaction_id, amount |-> p.amount,
     method |-> p.method, status |-> p.status,
     payment_date |-> p.payment_date, due_date |-> p.due_date,
     inst_id |-> IF i = None THEN None ELSE Some(i[1].id),
     inst_payment_id |-> IF i = None THEN None ELSE Some(i[1].payment_id),
     inst_amount |-> IF i = None THEN None ELSE Some(i[1].amount),
     inst_date |-> IF i = None THEN None ELSE Some(i[1].payment_date)]

\* the rows of the LEFT JOIN for the payments whose id is in ids: a payment
\* without installments gives one row whose installment side is NULL
JoinRows(d, ids) ==
    UNION {LET is == {i \in d.installments : i.payment_id = p.id}
           IN IF is = {} THEN {JoinedRow(p, None)}
              ELSE {JoinedRow(p, Some(i)) : i \in is}
           : p \in {q \in d.payments : q.id \in ids}}

\* ORDER BY i.payment_date ASC (a NULL date is the only row of its payment)
InstDateLeq(r1, r2) ==
    \/ r1.inst_date = None
    \/ r2.inst_date # None /\ DateTextLeq(r1.inst_date[1], r2.inst_date[1])

\* text order of the payment ids
PaymentIdOrder == <<"PMT-1", "PMT-2">>
IdRank(id) == CHOOSE k \in DOMAIN PaymentIdOrder : PaymentIdOrder[k] = id

\* ORDER BY p.id, i.payment_date ASC
IdInstDateLeq(r1, r2) ==
    \/ IdRank(r1.id) < IdRank(r2.id)
    \/ r1.id = r2.id /\ InstDateLeq(r1, r2)

RECURSIVE OrderByInstDate(_)
\* every order in which the database may deliver the rows S under
\* ORDER BY i.payment_date ASC: rows of equal date come in any order
OrderByInstDate(S) ==
    IF S = {} THEN {<<>>}
    ELSE UNION {{<<x>> \o rest : rest \in OrderByInstDate(S \ {x})}
                : x \in {y \in S : \A z \in S : InstDateLeq(y, z)}}

RECURSIVE OrderByIdInstDate(_)
\* the same under ORDER BY p.id, i.payment_date ASC
OrderByIdInstDate(S) ==
    IF S = {} THEN {<<>>}
    ELSE UNION {{<<x>> \o rest : rest \in OrderByIdInstDate(S \ {x})}
                : x \in {y \in S : \A z \in S : IdInstDateLeq(y, z)}}

RECURSIVE AnyOrder(_)
\* every order in which the database may deliver S without an ORDER BY
AnyOrder(S) ==
    IF S = {} THEN {<<>>}
    ELSE UNION {{<<x>> \o rest : rest \in AnyOrder(S \ {x})} : x \in S}

-----------------------------------------------------------------------------
(* OptimizedPembayaranRepository.  An operation that reads gives the set   *)
(* of its possible outcomes, one per order the database may deliver        *)
(* equal-keyed rows in.  An operation that writes gives records [res, db]; *)
(* fault names the step at which the database fails or the call is         *)
(* dropped ("none": it does not).                                          *)

\* find_by_id: one LEFT JOIN query; no row at all is RowNotFound
find_by_id(d, id) ==
    LET S == JoinRows(d, {id})
    IN IF S = {} THEN {Err(RowNotFound)}
       ELSE {parse_joined_rows_to_payment(rs) : rs \in OrderByInstDate(S)}

\* create: INSERT payment, INSERT each installment, COMMIT, then re-read
create(d, payment, fault) ==
    LET r1 == IF fault = "insert_payment" THEN Err(DatabaseErr)
              ELSE InsertPayment(d, payment)
        r2 == IF ~r1.ok THEN r1
              ELSE IF payment.installments = <<>> THEN r1
              ELSE IF fault = "insert_installment" THEN Err(DatabaseErr)
              ELSE batch_insert_installments(r1.val, payment.installments)
        r3 == IF ~r2.ok THEN r2
              ELSE IF fault = "commit" THEN Err(DatabaseErr)
              ELSE r2
    IN IF ~r3.ok THEN {[res |-> r3, db |-> d]}
       ELSE IF fault = "reread" THEN {[res |-> Err(DatabaseErr), db |-> r3.val]}
       ELSE {[res |-> r, db |-> r3.val] : r \in find_by_id(r3.val, payment.id)}

\* update: UPDATE the payment row, COMMIT, then re-read
update(d, payment) ==
    LET d1 == UpdatePaymentRow(d, payment)
    IN {[res |-> r, db |-> d1] : r \in find_by_id(d1, payment.id)}

\* update with a failure: at the COMMIT (the transaction is dropped and
\* rolled back) or at the SELECT of find_by_id that follows it
update_faulted(d, payment, fault) ==
    IF fault = "none" THEN update(d, payment)
    ELSE IF fault = "commit" THEN {[res |-> Err(DatabaseErr), db |-> d]}
    ELSE {[res |-> Err(DatabaseErr), db |-> UpdatePaymentRow(d, payment)]}

\* a faulty variant: the installment of the additional amount is not inserted
update_payment_status_tx_status_only(d, payment_id, new_status, additional_amount, inst_id, t) ==
    Ok(UpdateStatusRow(d, payment_id, new_status))

\* the transaction of update_payment_status: UPDATE status, INSERT one
\* installment when an amount is given, COMMIT; the database it leaves
update_payment_status_tx(d, payment_id, new_status, additional_amount, inst_id, t) ==
    LET d1 == UpdateStatusRow(d, payment_id, new_status)
    IN IF additional_amount = None THEN Ok(d1)
       ELSE insert_installment_tx(d1,
                [id |-> inst_id, payment_id |-> payment_id,
                 amount |-> additional_amount[1],
                 payment_date |-> DT(t, 0)])

\* update_payment_status: the transaction, then the re-read
update_payment_status(d, payment_id, new_status, additional_amount, inst_id, t) ==
    LET r2 == update_payment_status_tx(d, payment_id, new_status,
                                       additional_amount, inst_id, t)
    IN IF ~r2.ok THEN {[res |-> r2, db |-> d]}
       ELSE {[res |-> r, db |-> r2.val] : r \in find_by_id(r2.val, payment_id)}

\* update_payment_status with a failure at the COMMIT or at the SELECT of
\* find_by_id that follows it
update_payment_status_faulted(d, payment_id, new_status, additional_amount, inst_id, t, fault) ==
    LET r2 == update_payment_status_tx(d, payment_id, new_status,
                                       additional_amount, inst_id, t)
    IN IF fault = "none"
       THEN update_payment_status(d, payment_id, new_status, additional_amount,
                                  inst_id, t)
       ELSE IF ~r2.ok THEN {[res |-> r2, db |-> d]}
       ELSE IF fault = "commit" THEN {[res |-> Err(DatabaseErr), db |-> d]}
       ELSE {[res |-> Err(DatabaseErr), db |-> r2.val]}

\* delete: DELETE the installments, DELETE the payment, COMMIT
delete(d, id) ==
    [res |-> Ok(Unit), db |-> DeletePaymentRow(DeleteInstallmentRows(d, id), id)]

\* where a delete may fail: a statement or the COMMIT returns an error (or
\* the call is cancelled there)
DeleteFaults == {"none", "delete_installments", "delete_payment", "commit"}

\* delete with a failure: the `?` returns the error and the transaction,
\* dropped without a commit, is rolled back
delete_faulted(d, id, fault) ==
    IF fault = "none" THEN delete(d, id)
    ELSE [res |-> Err(DatabaseErr), db |-> d]

\* add_installment: INSERT one installment, COMMIT
add_installment(d, installment) ==
    LET r == insert_installment_tx(d, installment)
    IN IF r.ok THEN [res |-> Ok(Unit), db |-> r.val]
       ELSE [res |-> r, db |-> d]

\* a faulty variant: the WHERE clauses joined by OR
FilterMatchesAny(p, filters) ==
    \/ filters = None
    \/ LET filter_map == filters[1]
       IN \/ DOMAIN filter_map \cap {"status", "method", "transaction_id"} = {}
          \/ "status" \in DOMAIN filter_map /\ p.status = filter_map["status"]
          \/ "method" \in DOMAIN filter_map /\ p.method = filter_map["method"]
          \/ "transaction_id" \in DOMAIN filter_map
                /\ p.transaction_id = filter_map["transaction_id"]

\* build_filtered_query: the WHERE clause as a predicate on a payment row;
\* filters is None or Some(map from key to value)
FilterMatches(p, filters) ==
    \/ filters = None
    \/ LET filter_map == filters[1]
       IN /\ "status" \in DOMAIN filter_map => p.status = filter_map["status"]
          /\ "method" \in DOMAIN filter_map => p.method = filter_map["method"]
          /\ "transaction_id" \in DOMAIN filter_map
                => p.transaction_id = filter_map["transaction_id"]

\* the rows of the batched join, in an order its ORDER BY allows
BatchRowOrders(d, payment_ids) == OrderByIdInstDate(JoinRows(d, Range(payment_ids)))

\* batch_load_payments_with_installments
batch_load_payments_with_installments(d, payment_ids) ==
    IF payment_ids = <<>> THEN {Ok(<<>>)}
    ELSE {parse_grouped_rows_to_payments(rs) : rs \in BatchRowOrders(d, payment_ids)}

\* find_all: the filtered query gives the ids (idq, in the order the
\* database delivers them), the batched join loads them
find_all(d, filters) ==
    UNION {LET payment_ids == [k \in DOMAIN payment_rows |-> payment_rows[k].id]
           IN {[res |-> r, idq |-> payment_ids]
               : r \in IF payment_rows = <<>> THEN {Ok(<<>>)}
                       ELSE batch_load_payments_with_installments(d, payment_ids)}
           : payment_rows \in AnyOrder({p \in d.payments : FilterMatches(p, filters)})}

-----------------------------------------------------------------------------
(* Values the model draws its inputs from *)

PaymentIds == {"PMT-1", "PMT-2"}

\* installment ids a caller supplies, and the ids the program generates
\* ("INST-" + uuid: fresh, never one a caller supplied)
ClientInstIds == {"INST-A", "INST-B", "INST-C"}
UuidInstId(n) == "INST-uuid-" \o ToString(n)

\* a payment row as the join delivers it
BaseRow(pid) ==
    [id |-> pid,
     transaction_id |-> IF pid = "PMT-1" THEN "TXN-1" ELSE "TXN-2",
     amount |-> 100,
     method |-> IF pid = "PMT-1" THEN "CASH" ELSE "E_WALLET",
     status |-> "CICILAN",
     payment_date |-> [fmt |-> "rfc3339", secs |-> 0, frac |-> 0],
     due_date |-> None]

\* date texts in each of the three shapes parse_datetime accepts
AcceptedDateTexts ==
    {[fmt |-> "rfc3339", secs |-> 1, frac |-> 500],
     [fmt |-> "naive_frac", secs |-> 1, frac |-> 500],
     [fmt |-> "naive_sec", secs |-> 1, frac |-> 0]}

\* a date text in none of them
UnparsableDateText == [fmt |-> "other", secs |-> 1, frac |-> 0]

\* joined rows: the installment side NULL, or an installment
RowInputs ==
    {JoinedRow(BaseRow(pid), None) : pid \in PaymentIds}
    \cup {JoinedRow(BaseRow(pid),
                    Some([id |-> iid, payment_id |-> pid, amount |-> 50,
                          payment_date |-> d]))
          : pid \in PaymentIds, iid \in {"INST-A", "INST-B"},
            d \in AcceptedDateTexts \cup {UnparsableDateText}}

RowSeqInputs == UNION {[1..n -> RowInputs] : n \in 0..MaxRows}

NoCall == [op |-> "none"]

-----------------------------------------------------------------------------
(* The aggregation as a system of its own: any row sequence, then the      *)
(* aggregation applied to it.                                              *)

InitRows ==
    /\ db = EmptyDb
    /\ cache = EmptyMap
    /\ now = 0
    /\ uuid = 0
    /\ call = NoCall
    /\ rows \in RowSeqInputs
    /\ agg = None
    /\ pc = EmptyMap
    /\ loc = EmptyMap

Aggregate ==
    /\ agg = None
    /\ agg' = Some(parse_grouped_rows_to_payments(rows))
    /\ UNCHANGED <<db, cache, now, uuid, call, rows, pc, loc>>

\* the rows are those of one payment, as the join of find_by_id delivers them
RowsOfOnePayment(rs) == rs # <<>> /\ \A k \in DOMAIN rs : rs[k].id = rs[1].id

\* find_by_id parses the rows of its join
ParseJoined ==
    /\ call = NoCall
    /\ RowsOfOnePayment(rows)
    /\ call' = [op |-> "parse_joined_rows_to_payment",
                res |-> parse_joined_rows_to_payment(rows)]
    /\ UNCHANGED <<db, cache, now, uuid, rows, agg, pc, loc>>

NextRows == Aggregate \/ ParseJoined

SpecRows == InitRows /\ [][NextRows]_vars

RECURSIVE FirstSeenIds(_, _)
\* the distinct payment ids of rs in order of first occurrence (seen: so far)
FirstSeenIds(rs, seen) ==
    IF rs = <<>> THEN <<>>
    ELSE IF Head(rs).id \in seen THEN FirstSeenIds(Tail(rs), seen)
    ELSE <<Head(rs).id>> \o FirstSeenIds(Tail(rs), seen \cup {Head(rs).id})

IsInstRowOf(r, pid) == r.id = pid /\ r.inst_id # None

RECURSIVE InstRowsOf(_, _)
\* the rows of rs of payment pid whose installment columns are non-null
InstRowsOf(rs, pid) ==
    IF rs = <<>> THEN <<>>
    ELSE IF IsInstRowOf(Head(rs), pid)
         THEN <<Head(rs)>> \o InstRowsOf(Tail(rs), pid)
         ELSE InstRowsOf(Tail(rs), pid)

\* installment is the installment columns of row r
IsInstallmentOfRow(installment, r) ==
    /\ installment.id = r.inst_id[1]
    /\ installment.payment_id = r.inst_payment_id[1]
    /\ installment.amount = r.inst_amount[1]
    /\ Ok(installment.payment_date) = parse_datetime(r.inst_date[1])

\* C10: for every flat sequence of joined rows the aggregation returns one
\* Payment per distinct payment id, in order of first occurrence, whose
\* installments are exactly the rows of that id with non-null installment
\* columns, in row order; a row whose installment columns are null adds no
\* installment.
C10_Aggregation ==
    agg # None =>
        LET r == agg[1]
            ids == FirstSeenIds(rows, {})
        IN /\ r.ok
           /\ Len(r.val) = Len(ids)
           /\ \A k \in 1..Len(ids) :
                 LET inst_rows == InstRowsOf(rows, ids[k])
                 IN /\ r.val[k].id = ids[k]
                    /\ Len(r.val[k].installments) = Len(inst_rows)
                    /\ \A j \in 1..Len(inst_rows) :
                          IsInstallmentOfRow(r.val[k].installments[j], inst_rows[j])

\* the same over the rows whose installment dates are in an accepted shape
AggregationOfParsedRows ==
    (\A k \in DOMAIN rows :
        rows[k].inst_id # None => parse_datetime(rows[k].inst_date[1]).ok)
    => C10_Aggregation


-----------------------------------------------------------------------------
(* PembayaranRepository (the repository behind PaymentService): the same   *)
(* statements, each executed on the connection by itself, outside any      *)
(* transaction, so each takes effect when it is executed.                  *)

\* load_payment_with_installments: the payment row, then its installments
\* ORDER BY payment_date ASC
load_payment_with_installments(d, payment_id) ==
    LET S == JoinRows(d, {payment_id})
    IN IF S = {} THEN {Err(RowNotFound)}
       ELSE {parse_joined_rows_to_payment(rs) : rs \in OrderByInstDate(S)}

RECURSIVE NaiveInsertLoop(_, _)
\* for installment in &payment.installments { add_installment(..)? }
NaiveInsertLoop(d, installments) ==
    IF installments = <<>> THEN [res |-> Ok(Unit), db |-> d]
    ELSE LET r == insert_installment_tx(d, Head(installments))
         IN IF ~r.ok THEN [res |-> r, db |-> d]
            ELSE NaiveInsertLoop(r.val, Tail(installments))

\* PembayaranRepository::create
naive_create(d, payment, fault) ==
    LET r1 == IF fault = "insert_payment" THEN Err(DatabaseErr)
              ELSE InsertPayment(d, payment)
    IN IF ~r1.ok THEN {[res |-> r1, db |-> d]}
       ELSE IF payment.installments = <<>>
       THEN {[res |-> r, db |-> r1.val]
             : r \in load_payment_with_installments(r1.val, payment.id)}
       ELSE IF fault = "insert_installment"
       THEN {[res |-> Err(DatabaseErr), db |-> r1.val]}
       ELSE LET r2 == NaiveInsertLoop(r1.val, payment.installments)
            IN IF ~r2.res.ok THEN {r2}
               ELSE {[res |-> r, db |-> r2.db]
                     : r \in load_payment_with_installments(r2.db, payment.id)}

\* SELECT ... FROM payments WHERE id, fetch_one, parse_row_to_payment: the
\* payment of the row, without installments
naive_select_payment(d, id) ==
    IF ~HasPayment(d, id) THEN Err(RowNotFound)
    ELSE parse_row_to_payment_base(
             JoinedRow(CHOOSE p \in d.payments : p.id = id, None))

\* PembayaranRepository::update: UPDATE the row, SELECT it, load it with its
\* installments
naive_update(d, payment) ==
    LET d1 == UpdatePaymentRow(d, payment)
        r == naive_select_payment(d1, payment.id)
    IN IF ~r.ok THEN {[res |-> r, db |-> d1]}
       ELSE {[res |-> q, db |-> d1]
             : q \in load_payment_with_installments(d1, r.val.id)}

NaiveDeleteFaults == {"none", "delete_installments", "delete_payment"}

\* PembayaranRepository::delete: DELETE the installments, then DELETE the
\* payment, two statements executed one after the other on the connection
naive_delete(d, id, fault) ==
    IF fault = "delete_installments" THEN [res |-> Err(DatabaseErr), db |-> d]
    ELSE LET d1 == DeleteInstallmentRows(d, id)
         IN IF fault = "delete_payment"
            THEN [res |-> Err(DatabaseErr), db |-> d1]
            ELSE [res |-> Ok(Unit), db |-> DeletePaymentRow(d1, id)]

\* PaymentService::delete_payment (the service of the HTTP controller): a
\* connection, PembayaranRepository::delete, its error as DatabaseError
naive_delete_payment(d, payment_id, fault) ==
    LET o == naive_delete(d, payment_id, fault)
    IN IF o.res.ok THEN o
       ELSE [res |-> Err([kind |-> "DatabaseError"]), db |-> o.db]

-----------------------------------------------------------------------------
(* OptimizedPaymentService::validate_payment: the list of all violations   *)

IsBlank(str) == str \in {"", " "}

RECURSIVE InstallmentErrors(_, _, _)
InstallmentErrors(payment, installments, i) ==
    IF installments = <<>> THEN <<>>
    ELSE LET installment == Head(installments)
         IN (IF installment.amount <= 0
             THEN <<[msg |-> "Installment amount must be greater than 0", i |-> i]>>
             ELSE <<>>)
            \o (IF installment.payment_id # payment.id
                THEN <<[msg |-> "Installment payment_id does not match payment ID", i |-> i]>>
                ELSE <<>>)
            \o InstallmentErrors(payment, Tail(installments), i + 1)

\* a faulty variant: validate_payment returning at the first violation
validate_payment_fail_fast(payment) ==
    LET errors ==
          IF IsBlank(payment.id)
          THEN <<[msg |-> "Payment ID cannot be empty", i |-> 0]>>
          ELSE IF IsBlank(payment.transaction_id)
          THEN <<[msg |-> "Transaction ID cannot be empty", i |-> 0]>>
          ELSE IF payment.amount <= 0
          THEN <<[msg |-> "Payment amount must be greater than 0", i |-> 0]>>
          ELSE IF payment.status = "Installment" /\ payment.installments = <<>>
          THEN <<[msg |-> "Payment with INSTALLMENT status must have at least one installment", i |-> 0]>>
          ELSE LET e == InstallmentErrors(payment, payment.installments, 1)
               IN IF e = <<>> THEN <<>> ELSE <<Head(e)>>
    IN IF errors # <<>> THEN Err([kind |-> "ValidationError", errors |-> errors])
       ELSE Ok(Unit)

\* a faulty variant: validate_payment refusing negative amounts only
validate_payment_negative_only(payment) ==
    LET errors ==
          (IF IsBlank(payment.id)
           THEN <<[msg |-> "Payment ID cannot be empty", i |-> 0]>> ELSE <<>>)
          \o (IF IsBlank(payment.transaction_id)
              THEN <<[msg |-> "Transaction ID cannot be empty", i |-> 0]>> ELSE <<>>)
          \o (IF payment.amount < 0
              THEN <<[msg |-> "Payment amount must be greater than 0", i |-> 0]>>
              ELSE <<>>)
          \o (IF payment.status = "Installment" /\ payment.installments = <<>>
              THEN <<[msg |-> "Payment with INSTALLMENT status must have at least one installment", i |-> 0]>>
              ELSE <<>>)
          \o InstallmentErrors(payment, payment.installments, 1)
    IN IF errors # <<>> THEN Err([kind |-> "ValidationError", errors |-> errors])
       ELSE Ok(Unit)

validate_payment(payment) ==
    LET errors ==
          (IF IsBlank(payment.id)
           THEN <<[msg |-> "Payment ID cannot be empty", i |-> 0]>> ELSE <<>>)
          \o (IF IsBlank(payment.transaction_id)
              THEN <<[msg |-> "Transaction ID cannot be empty", i |-> 0]>> ELSE <<>>)
          \o (IF payment.amount <= 0
              THEN <<[msg |-> "Payment amount must be greater than 0", i |-> 0]>>
              ELSE <<>>)
          \o (IF payment.status = "Installment" /\ payment.installments = <<>>
              THEN <<[msg |-> "Payment with INSTALLMENT status must have at least one installment", i |-> 0]>>
              ELSE <<>>)
          \o InstallmentErrors(payment, payment.installments, 1)
    IN IF errors # <<>> THEN Err([kind |-> "ValidationError", errors |-> errors])
       ELSE Ok(Unit)

-----------------------------------------------------------------------------
(* The store as a system of its own: calls on the repositories, one at a   *)
(* time, from an empty database.                                           *)

Inst(iid, pid, amt, date) ==
    [id |-> iid, payment_id |-> pid, amount |-> amt, payment_date |-> date]

\* the scalar fields a caller gives a payment: every method, with and
\* without a due date, dates with and without a sub-second part
ScalarShapes(pid) ==
    IF pid = "PMT-1"
    THEN {[method |-> "Cash", transaction_id |-> "TXN-1",
           payment_date |-> DT(0, 0), due_date |-> None],
          [method |-> "CreditCard", transaction_id |-> "TXN-2",
           payment_date |-> DT(0, 500), due_date |-> Some(DT(2, 500))]}
    ELSE {[method |-> "BankTransfer", transaction_id |-> "TXN-2",
           payment_date |-> DT(1, 0), due_date |-> Some(DT(2, 0))],
          [method |-> "EWallet", transaction_id |-> "TXN-1",
           payment_date |-> DT(0, 500), due_date |-> None]}

\* status and initial installments: none, one, two given out of date order,
\* two of one date, twice the same installment id, one of another payment
InstallmentShapes(pid) ==
    {[status |-> "Paid", installments |-> <<>>],
     [status |-> "Installment",
      installments |-> <<Inst("INST-A", pid, 50, DT(1, 500)),
                         Inst("INST-B", pid, 30, DT(1, 0))>>]}
    \cup
    (IF pid = "PMT-1"
     THEN {[status |-> "Installment",
            installments |-> <<Inst("INST-A", pid, 50, DT(1, 500))>>],
           [status |-> "Installment",
            installments |-> <<Inst("INST-A", pid, 50, DT(1, 0)),
                               Inst("INST-A", pid, 30, DT(1, 500))>>]}
     ELSE {[status |-> "Installment",
            installments |-> <<Inst("INST-B", pid, 50, DT(1, 0)),
                               Inst("INST-C", pid, 30, DT(1, 0))>>],
           [status |-> "Installment",
            installments |-> <<Inst("INST-C", "PMT-1", 50, DT(1, 0))>>]})

StorePaymentInputs ==
    UNION {{[id |-> pid,
             transaction_id |-> sc.transaction_id,
             amount |-> 100,
             method |-> sc.method,
             status |-> sh.status,
             payment_date |-> sc.payment_date,
             installments |-> sh.installments,
             due_date |-> sc.due_date]
            : sc \in ScalarShapes(pid), sh \in InstallmentShapes(pid)}
           : pid \in PaymentIds}

CreateFaults == {"none", "insert_payment", "insert_installment", "commit"}

FilterInputs ==
    {None,
     Some(EmptyMap),
     Some("status" :> "LUNAS"),
     Some("status" :> "CICILAN"),
     Some("method" :> "CASH"),
     Some("transaction_id" :> "TXN-2"),
     Some(("status" :> "CICILAN") @@ ("method" :> "CREDIT_CARD")),
     Some(("status" :> "CICILAN") @@ ("method" :> "E_WALLET")
             @@ ("transaction_id" :> "TXN-2")),
     Some("status" :> "lunas")}

InitStore ==
    /\ db = EmptyDb
    /\ cache = EmptyMap
    /\ now = 0
    /\ uuid = 0
    /\ call = NoCall
    /\ rows = <<>>
    /\ agg = None
    /\ pc = EmptyMap
    /\ loc = EmptyMap

StoreCreate(payment, fault) ==
    \E o \in create(db, payment, fault) :
        /\ db' = o.db
        /\ call' = [op |-> "create", arg |-> payment, fault |-> fault, res |-> o.res]
        /\ UNCHANGED <<cache, now, uuid, rows, agg, pc, loc>>

NaiveCreate(payment, fault) ==
    \E o \in naive_create(db, payment, fault) :
        /\ db' = o.db
        /\ call' = [op |-> "naive_create", arg |-> payment, fault |-> fault, res |-> o.res]
        /\ UNCHANGED <<cache, now, uuid, rows, agg, pc, loc>>

StoreFindById(id) ==
    \E r \in find_by_id(db, id) :
        /\ call' = [op |-> "find_by_id", id |-> id, res |-> r]
        /\ UNCHANGED <<db, cache, now, uuid, rows, agg, pc, loc>>

StoreFindAll(filters) ==
    \E o \in find_all(db, filters) :
        /\ call' = [op |-> "find_all", filters |-> filters, idq |-> o.idq, res |-> o.res]
        /\ UNCHANGED <<db, cache, now, uuid, rows, agg, pc, loc>>

StoreDelete(id, fault) ==
    LET o == delete_faulted(db, id, fault)
    IN /\ db' = o.db
       /\ call' = [op |-> "delete", id |-> id, fault |-> fault, res |-> o.res]
       /\ UNCHANGED <<cache, now, uuid, rows, agg, pc, loc>>

NaiveDelete(id, fault) ==
    LET o == naive_delete(db, id, fault)
    IN /\ db' = o.db
       /\ call' = [op |-> "naive_delete", id |-> id, fault |-> fault, res |-> o.res]
       /\ UNCHANGED <<cache, now, uuid, rows, agg, pc, loc>>

\* payments given to update: other scalar fields than the stored ones may
\* have, and other installments
StoreUpdateInputs ==
    {p \in StorePaymentInputs :
        \/ p.id = "PMT-1" /\ p.method = "CreditCard" /\ p.status = "Paid"
        \/ p.id = "PMT-2" /\ p.method = "BankTransfer" /\ Len(p.installments) = 2
                          /\ p.installments[1].id = "INST-A"}

StoreUpdate(payment) ==
    \E o \in update(db, payment) :
        /\ db' = o.db
        /\ call' = [op |-> "update", arg |-> payment, res |-> o.res]
        /\ UNCHANGED <<cache, now, uuid, rows, agg, pc, loc>>

NaiveUpdate(payment) ==
    \E o \in naive_update(db, payment) :
        /\ db' = o.db
        /\ call' = [op |-> "naive_update", arg |-> payment, res |-> o.res]
        /\ UNCHANGED <<cache, now, uuid, rows, agg, pc, loc>>

NaiveDeletePayment(payment_id, fault) ==
    LET o == naive_delete_payment(db, payment_id, fault)
    IN /\ db' = o.db
       /\ call' = [op |-> "delete_payment", id |-> payment_id, fault |-> fault,
                   res |-> o.res]
       /\ UNCHANGED <<cache, now, uuid, rows, agg, pc, loc>>

NextStore ==
    \/ \E payment \in StorePaymentInputs, fault \in CreateFaults :
          StoreCreate(payment, fault)
    \/ \E payment \in StorePaymentInputs, fault \in CreateFaults :
          NaiveCreate(payment, fault)
    \/ \E id \in PaymentIds : StoreFindById(id)
    \/ \E filters \in FilterInputs : StoreFindAll(filters)
    \/ \E id \in PaymentIds, fault \in DeleteFaults : StoreDelete(id, fault)
    \/ \E id \in PaymentIds, fault \in NaiveDeleteFaults : NaiveDelete(id, fault)
    \/ \E id \in PaymentIds, fault \in NaiveDeleteFaults :
          NaiveDeletePayment(id, fault)
    \/ \E payment \in StoreUpdateInputs : StoreUpdate(payment)
    \/ \E payment \in StoreUpdateInputs : NaiveUpdate(payment)

SpecStore == InitStore /\ [][NextStore]_vars

-----------------------------------------------------------------------------
(* Properties of the store *)

DtLeq(a, b) == a.secs < b.secs \/ (a.secs = b.secs /\ a.frac <= b.frac)

SortedByDate(installments) ==
    \A i, j \in DOMAIN installments :
        i < j => DtLeq(installments[i].payment_date, installments[j].payment_date)

SameScalars(p, q) ==
    /\ q.id = p.id
    /\ q.transaction_id = p.transaction_id
    /\ q.amount = p.amount
    /\ q.method = p.method
    /\ q.status = p.status
    /\ q.payment_date = p.payment_date
    /\ q.due_date = p.due_date

SameInstallmentSet(p, q) ==
    /\ Len(q.installments) = Len(p.installments)
    /\ Range(q.installments) = Range(p.installments)

\* q is p as a read returns it: every field, p's installments, by date
RoundTripEq(p, q) ==
    /\ SameScalars(p, q)
    /\ SameInstallmentSet(p, q)
    /\ SortedByDate(q.installments)

IsCreateCall(c) == c.op \in {"create", "naive_create"}

\* the payment row and every installment row of payment are stored
Persisted(d, payment) ==
    /\ PaymentRow(payment) \in d.payments
    /\ \A k \in DOMAIN payment.installments :
          InstallmentRow(payment.installments[k]) \in d.installments

\* C5: Store.create(payment) is all-or-nothing: when the payment insert, an
\* installment insert or the commit fails, the store is left as it was
\* (neither the payment row nor any installment of the call is added); when
\* it succeeds the payment row and every installment of the call are stored.
C5_CreateAllOrNothing ==
    [][IsCreateCall(call') =>
          IF call'.res.ok THEN Persisted(db', call'.arg) ELSE db' = db]_vars

\* the same of OptimizedPembayaranRepository::create alone, which runs its
\* inserts in one transaction
OptimizedCreateAllOrNothing ==
    [][call'.op = "create" =>
          IF call'.res.ok THEN Persisted(db', call'.arg) ELSE db' = db]_vars

\* C7: for any valid payment p, create(p) followed by find_by_id(p.id)
\* returns a payment equal to p in every field (id, transaction_id, amount,
\* method, status, payment_date, due_date) with exactly p's installments,
\* in ascending payment_date order.
C7_RoundTrip ==
    (call.op = "create" /\ call.res.ok /\ validate_payment(call.arg).ok) =>
        /\ RoundTripEq(call.arg, call.res.val)
        /\ \A r \in find_by_id(db, call.arg.id) :
              r.ok /\ RoundTripEq(call.arg, r.val)

\* a valid payment with a due date, sub-second dates and two installments
\* given out of date order has been created and read back
C7_Witness ==
    /\ call.op = "create" /\ call.res.ok /\ validate_payment(call.arg).ok
    /\ call.arg.due_date # None
    /\ call.arg.payment_date.frac # 0
    /\ Len(call.arg.installments) = 2
    /\ ~SortedByDate(call.arg.installments)
    /\ Len(call.res.val.installments) = 2

\* the ids the filter matches in the stored payments
MatchedIds(d, filters) == {p.id : p \in {q \in d.payments : FilterMatches(q, filters)}}

\* C8: for any store state and any filter, find_all(filter) contains exactly
\* the payments that find_by_id returns for the ids the filter matches: each
\* once, with the same fields and the same installment set, whether the
\* filter matches no, one or several payments.
C8_BatchEquivalence ==
    call.op = "find_all" =>
        /\ call.res.ok
        /\ Len(call.res.val) = Cardinality(MatchedIds(db, call.filters))
        /\ {call.res.val[k].id : k \in DOMAIN call.res.val}
              = MatchedIds(db, call.filters)
        /\ \A k \in DOMAIN call.res.val :
              \A r \in find_by_id(db, call.res.val[k].id) :
                 /\ r.ok
                 /\ SameScalars(r.val, call.res.val[k])
                 /\ SameInstallmentSet(r.val, call.res.val[k])

\* find_all has returned two payments, with two installments and with none
C8_Witness ==
    /\ call.op = "find_all" /\ call.res.ok
    /\ Len(call.res.val) = 2
    /\ \E k \in 1..2 : Len(call.res.val[k].installments) = 2
    /\ \E k \in 1..2 : Len(call.res.val[k].installments) = 0

ResultIds(c) == [k \in DOMAIN c.res.val |-> c.res.val[k].id]

\* C9 as stated: find_all returns the matched payments in the order in
\* which the filtered id query returned their ids, each exactly once.
C9_FilterQueryOrder ==
    (call.op = "find_all" /\ call.res.ok) => ResultIds(call) = call.idq

\* the order find_all has: it returns each matched payment exactly
\* once, in ascending order of payment id (the ORDER BY p.id of the batched
\* join, whose first-seen order the aggregation keeps), whatever the order
\* in which the filtered id query returned the ids.
FindAllOrderedById ==
    (call.op = "find_all" /\ call.res.ok) =>
        /\ Range(ResultIds(call)) = Range(call.idq)
        /\ Len(call.res.val) = Len(call.idq)
        /\ \A j, k \in DOMAIN call.res.val :
              j < k => IdRank(call.res.val[j].id) < IdRank(call.res.val[k].id)

IsDeleteCall(c) == c.op \in {"delete", "naive_delete"}

NoTraceOf(d, id) ==
    /\ ~HasPayment(d, id)
    /\ \A i \in d.installments : i.payment_id # id

\* C11 as stated: a delete of either repository is atomic: after a
\* successful delete neither the payment row nor any installment of that
\* payment remains, and after a delete that failed or was cancelled both
\* remain exactly as they were.
C11_DeleteAtomic ==
    [][IsDeleteCall(call') =>
          IF call'.res.ok THEN NoTraceOf(db', call'.id) ELSE db' = db]_vars

\* the same of OptimizedPaymentRepository::delete alone: it holds.
OptimizedDeleteAtomic ==
    [][call'.op = "delete" =>
          IF call'.res.ok THEN NoTraceOf(db', call'.id) ELSE db' = db]_vars

-----------------------------------------------------------------------------
(* OptimizedPaymentService: the cache *)

\* CachedPayment::new at time t
CachedPayment(payment, ttl_seconds, t) ==
    [payment |-> payment, cached_at |-> t, ttl_seconds |-> ttl_seconds]

\* a faulty variant: an entry exactly as old as its TTL counts as expired
is_expired_at_ttl(entry, t) == (t - entry.cached_at) >= entry.ttl_seconds

\* CachedPayment::is_expired at time t
is_expired(entry, t) == (t - entry.cached_at) > entry.ttl_seconds

get_cached_payment(c, id) == IF id \in DOMAIN c THEN Some(c[id]) ELSE None

cache_payment(c, id, payment, ttl_seconds, t) ==
    [k \in DOMAIN c \cup {id} |->
        IF k = id THEN CachedPayment(payment, ttl_seconds, t) ELSE c[k]]

remove_from_cache(c, id) == [k \in DOMAIN c \ {id} |-> c[k]]

clear_cache(c) == EmptyMap

(* OptimizedPaymentError *)

NotFound(id) == [kind |-> "NotFound", entity |-> "Payment", id |-> id]
InvalidInput(field) == [kind |-> "InvalidInput", field |-> field]
DatabaseError == [kind |-> "DatabaseError"]
ConnectionError == [kind |-> "ConnectionError"]

convert_sqlx_error(error) ==
    IF error = RowNotFound THEN NotFound("unknown")
    ELSE IF error = [sqlx |-> "PoolTimedOut"] THEN ConnectionError
    ELSE DatabaseError

\* .map_err(|e| match e { RowNotFound => NotFound{id}, _ => convert })
NotFoundOrConvert(error, id) ==
    IF error = RowNotFound THEN NotFound(id) ELSE convert_sqlx_error(error)

\* payments_are_equal: amounts compared within f64::EPSILON
payments_are_equal(payment1, payment2) ==
    /\ payment1.id = payment2.id
    /\ payment1.transaction_id = payment2.transaction_id
    /\ payment1.amount = payment2.amount
    /\ payment1.method = payment2.method
    /\ payment1.status = payment2.status
    /\ Len(payment1.installments) = Len(payment2.installments)

-----------------------------------------------------------------------------
(* OptimizedPaymentService: the operations.  Each gives the set of its     *)
(* outcomes on database d and cache c at time t: the result, the database  *)
(* and the cache it leaves.                                                *)

\* get_payment_by_id: the cache first; on a miss or an expired entry (which
\* is removed) the database, whose result is cached.  io is what the call
\* has accessed when it returns: the result cache, the connection pool
\* (acquire_connection), the store (a call on the repository)
get_payment_by_id(d, c, t, id) ==
    LET cached == get_cached_payment(c, id)
    IN IF cached # None /\ ~is_expired(cached[1], t)
       THEN {[res |-> Ok(cached[1].payment), db |-> d, cache |-> c,
              io |-> {"cache"}]}
       ELSE LET c1 == IF cached # None THEN remove_from_cache(c, id) ELSE c
            IN {IF r.ok
                THEN [res |-> r, db |-> d,
                      cache |-> cache_payment(c1, id, r.val, TTL_SECONDS, t),
                      io |-> {"cache", "pool", "store"}]
                ELSE [res |-> Err(NotFoundOrConvert(r.err, id)), db |-> d,
                      cache |-> c1, io |-> {"cache", "pool", "store"}]
                : r \in find_by_id(d, id)}

create_payment(d, c, t, payment, fault) ==
    LET v == validate_payment(payment)
    IN IF ~v.ok THEN {[res |-> v, db |-> d, cache |-> c, io |-> {}]}
       ELSE {IF o.res.ok
             THEN [res |-> o.res, db |-> o.db,
                   cache |-> cache_payment(c, o.res.val.id, o.res.val, TTL_SECONDS, t),
                   io |-> {"pool", "store", "cache"}]
             ELSE [res |-> Err(convert_sqlx_error(o.res.err)), db |-> o.db, cache |-> c,
                   io |-> {"pool", "store"}]
             : o \in create(d, payment, fault)}

\* a faulty variant: the cache is not refreshed after the write
update_payment_no_refresh(d, c, t, payment) ==
    LET v == validate_payment(payment)
    IN IF ~v.ok THEN {[res |-> v, db |-> d, cache |-> c, wrote |-> FALSE, io |-> {}]}
       ELSE UNION {
         IF ~g.res.ok
         THEN {[res |-> g.res, db |-> d, cache |-> g.cache, wrote |-> FALSE,
                io |-> g.io]}
         ELSE IF payments_are_equal(g.res.val, payment)
         THEN {[res |-> g.res, db |-> d, cache |-> g.cache, wrote |-> FALSE,
                io |-> g.io]}
         ELSE {IF o.res.ok
               THEN [res |-> o.res, db |-> o.db, cache |-> g.cache, wrote |-> TRUE,
                     io |-> g.io \cup {"pool", "store"}]
               ELSE [res |-> Err(convert_sqlx_error(o.res.err)), db |-> o.db,
                     cache |-> g.cache, wrote |-> TRUE,
                     io |-> g.io \cup {"pool", "store"}]
               : o \in update(d, payment)}
         : g \in get_payment_by_id(d, c, t, payment.id)}

\* update_payment: validate, fetch the existing payment, return it when the
\* new one is logically equal, else write and refresh the cache
update_payment(d, c, t, payment) ==
    LET v == validate_payment(payment)
    IN IF ~v.ok THEN {[res |-> v, db |-> d, cache |-> c, wrote |-> FALSE, io |-> {}]}
       ELSE UNION {
         IF ~g.res.ok
         THEN {[res |-> g.res, db |-> d, cache |-> g.cache, wrote |-> FALSE,
                io |-> g.io]}
         ELSE IF payments_are_equal(g.res.val, payment)
         THEN {[res |-> g.res, db |-> d, cache |-> g.cache, wrote |-> FALSE,
                io |-> g.io]}
         ELSE {IF o.res.ok
               THEN [res |-> o.res, db |-> o.db,
                     cache |-> cache_payment(g.cache, payment.id, o.res.val, TTL_SECONDS, t),
                     wrote |-> TRUE, io |-> g.io \cup {"pool", "store", "cache"}]
               ELSE [res |-> Err(convert_sqlx_error(o.res.err)), db |-> o.db,
                     cache |-> g.cache, wrote |-> TRUE,
                     io |-> g.io \cup {"pool", "store"}]
               : o \in update(d, payment)}
         : g \in get_payment_by_id(d, c, t, payment.id)}

\* a faulty variant: every error of the repository goes through
\* convert_sqlx_error
svc_update_payment_status_unknown_id(d, c, t, payment_id, new_status, additional_amount, inst_id) ==
    IF additional_amount # None /\ additional_amount[1] <= 0
    THEN {[res |-> Err(InvalidInput("additional_amount")), db |-> d, cache |-> c,
           io |-> {}]}
    ELSE {IF o.res.ok
          THEN [res |-> o.res, db |-> o.db,
                cache |-> cache_payment(c, o.res.val.id, o.res.val, TTL_SECONDS, t),
                io |-> {"pool", "store", "cache"}]
          ELSE [res |-> Err(convert_sqlx_error(o.res.err)),
                db |-> o.db, cache |-> c, io |-> {"pool", "store"}]
          : o \in update_payment_status(d, payment_id, new_status,
                                        additional_amount, inst_id, t)}

\* a faulty variant: the additional amount is not validated
svc_update_payment_status_unchecked(d, c, t, payment_id, new_status, additional_amount, inst_id) ==
    {IF o.res.ok
     THEN [res |-> o.res, db |-> o.db,
           cache |-> cache_payment(c, o.res.val.id, o.res.val, TTL_SECONDS, t),
           io |-> {"pool", "store", "cache"}]
     ELSE [res |-> Err(NotFoundOrConvert(o.res.err, payment_id)),
           db |-> o.db, cache |-> c, io |-> {"pool", "store"}]
     : o \in update_payment_status(d, payment_id, new_status,
                                   additional_amount, inst_id, t)}

\* update_payment_status: inst_id is the id Uuid::new_v4() gives the
\* installment of additional_amount
svc_update_payment_status(d, c, t, payment_id, new_status, additional_amount, inst_id) ==
    IF additional_amount # None /\ additional_amount[1] <= 0
    THEN {[res |-> Err(InvalidInput("additional_amount")), db |-> d, cache |-> c,
           io |-> {}]}
    ELSE {IF o.res.ok
          THEN [res |-> o.res, db |-> o.db,
                cache |-> cache_payment(c, o.res.val.id, o.res.val, TTL_SECONDS, t),
                io |-> {"pool", "store", "cache"}]
          ELSE [res |-> Err(NotFoundOrConvert(o.res.err, payment_id)),
                db |-> o.db, cache |-> c, io |-> {"pool", "store"}]
          : o \in update_payment_status(d, payment_id, new_status,
                                        additional_amount, inst_id, t)}

\* update_payment when the repository's update fails at fault: the calls
\* that do not reach the repository are as without a failure, the others
\* return the converted error and leave the cache as get_payment_by_id left it
update_payment_faulted(d, c, t, payment, fault) ==
    IF fault = "none" THEN update_payment(d, c, t, payment)
    ELSE {o \in update_payment(d, c, t, payment) : ~o.wrote}
         \cup UNION {
           IF /\ validate_payment(payment).ok
              /\ g.res.ok
              /\ ~payments_are_equal(g.res.val, payment)
           THEN {[res |-> Err(convert_sqlx_error(o.res.err)), db |-> o.db,
                  cache |-> g.cache, wrote |-> TRUE,
                  io |-> g.io \cup {"pool", "store"}]
                 : o \in update_faulted(d, payment, fault)}
           ELSE {}
           : g \in get_payment_by_id(d, c, t, payment.id)}

\* update_payment_status when the repository's update_payment_status fails
\* at fault
svc_update_payment_status_faulted(d, c, t, payment_id, new_status, additional_amount, inst_id, fault) ==
    IF fault = "none" \/ (additional_amount # None /\ additional_amount[1] <= 0)
    THEN svc_update_payment_status(d, c, t, payment_id, new_status,
                                   additional_amount, inst_id)
    ELSE {[res |-> Err(NotFoundOrConvert(o.res.err, payment_id)),
           db |-> o.db, cache |-> c, io |-> {"pool", "store"}]
          : o \in update_payment_status_faulted(d, payment_id, new_status,
                                                additional_amount, inst_id, t, fault)}

\* delete_payment: the existence check through get_payment_by_id, the
\* delete, the cache entry removed
delete_payment(d, c, t, payment_id) ==
    {IF ~g.res.ok THEN [res |-> g.res, db |-> d, cache |-> g.cache, io |-> g.io]
     ELSE LET o == delete(d, payment_id)
          IN [res |-> o.res, db |-> o.db,
              cache |-> remove_from_cache(g.cache, payment_id),
              io |-> g.io \cup {"pool", "store", "cache"}]
     : g \in get_payment_by_id(d, c, t, payment_id)}

\* add_installment: the amount and the status of the payment that
\* get_payment_by_id returns are checked, the installment is inserted, and
\* the payment is fetched again through get_payment_by_id
svc_add_installment(d, c, t, payment_id, amount, inst_id) ==
    IF amount <= 0
    THEN {[res |-> Err(InvalidInput("amount")), db |-> d, cache |-> c, io |-> {}]}
    ELSE UNION {
      IF ~g.res.ok THEN {[res |-> g.res, db |-> d, cache |-> g.cache, io |-> g.io]}
      ELSE IF g.res.val.status # "Installment"
      THEN {[res |-> Err(InvalidInput("payment_status")), db |-> d, cache |-> g.cache,
             io |-> g.io]}
      ELSE LET a == add_installment(d, Inst(inst_id, payment_id, amount, DT(t, 0)))
           IN IF ~a.res.ok
              THEN {[res |-> Err(convert_sqlx_error(a.res.err)), db |-> d,
                     cache |-> g.cache, io |-> g.io \cup {"pool", "store"}]}
              ELSE {[g2 EXCEPT !.io = @ \cup g.io \cup {"pool", "store"}]
                    : g2 \in get_payment_by_id(a.db, g.cache, t, payment_id)}
      : g \in get_payment_by_id(d, c, t, payment_id)}

\* str::to_uppercase on the filter values the model uses
to_uppercase(str) ==
    CASE str = "lunas" -> "LUNAS"
      [] str = "cash" -> "CASH"
      [] OTHER -> str

\* the keys of status_cache and of method_cache (OptimizedPaymentService::new)
status_cache == {"LUNAS", "CICILAN"}
method_cache == {"CASH", "CREDIT_CARD", "BANK_TRANSFER", "E_WALLET"}

\* a faulty variant: a key that is none of the three is ignored
validate_filters_known_keys_only(filter_map) ==
    LET errors ==
          {[msg |-> "Invalid status filter", arg |-> filter_map[k]]
             : k \in {j \in DOMAIN filter_map
                         : j = "status" /\ to_uppercase(filter_map[j]) \notin status_cache}}
          \cup {[msg |-> "Invalid method filter", arg |-> filter_map[k]]
                   : k \in {j \in DOMAIN filter_map
                               : j = "method"
                                 /\ to_uppercase(filter_map[j]) \notin method_cache}}
          \cup {[msg |-> "Transaction ID filter cannot be empty", arg |-> ""]
                   : k \in {j \in DOMAIN filter_map
                               : j = "transaction_id" /\ IsBlank(filter_map[j])}}
    IN IF errors = {} THEN {Ok(Unit)}
       ELSE {Err([kind |-> "ValidationError", errors |-> es]) : es \in AnyOrder(errors)}

\* validate_filters: one message per offending entry of the map, in the
\* order the HashMap iterates, which is any order
validate_filters(filter_map) ==
    LET errors ==
          {[msg |-> "Invalid status filter", arg |-> filter_map[k]]
             : k \in {j \in DOMAIN filter_map
                         : j = "status" /\ to_uppercase(filter_map[j]) \notin status_cache}}
          \cup {[msg |-> "Invalid method filter", arg |-> filter_map[k]]
                   : k \in {j \in DOMAIN filter_map
                               : j = "method"
                                 /\ to_uppercase(filter_map[j]) \notin method_cache}}
          \cup {[msg |-> "Transaction ID filter cannot be empty", arg |-> ""]
                   : k \in {j \in DOMAIN filter_map
                               : j = "transaction_id" /\ IsBlank(filter_map[j])}}
          \cup {[msg |-> "Unknown filter key", arg |-> k]
                   : k \in DOMAIN filter_map \ {"status", "method", "transaction_id"}}
    IN IF errors = {} THEN {Ok(Unit)}
       ELSE {Err([kind |-> "ValidationError", errors |-> es]) : es \in AnyOrder(errors)}

\* get_all_payments: the filters are validated, then find_all
get_all_payments(d, c, t, filters) ==
    LET v == IF filters = None THEN {Ok(Unit)} ELSE validate_filters(filters[1])
    IN UNION {IF ~r.ok THEN {[res |-> r, db |-> d, cache |-> c, io |-> {}]}
              ELSE {[res |-> IF o.res.ok THEN o.res
                             ELSE Err(convert_sqlx_error(o.res.err)),
                     db |-> d, cache |-> c, io |-> {"pool", "store"}]
                    : o \in find_all(d, filters)}
              : r \in v}

-----------------------------------------------------------------------------
(* The service, one call at a time: every call returns before the next     *)
(* starts, and the clock advances between calls.                           *)

ClientInst(pid) ==
    Inst(IF pid = "PMT-1" THEN "INST-A" ELSE "INST-B", pid, 50, DT(0, 0))

SvcPayment(pid, amount, status) ==
    [id |-> pid,
     transaction_id |-> "TXN-1",
     amount |-> amount,
     method |-> "Cash",
     status |-> status,
     payment_date |-> DT(0, 0),
     installments |-> IF status = "Installment" THEN <<ClientInst(pid)>> ELSE <<>>,
     due_date |-> None]

\* payments given to create_payment: paid, by installments, and an invalid one
CreateInputs ==
    {SvcPayment("PMT-1", 100, st) : st \in PaymentStatuses}
    \cup {SvcPayment("PMT-2", 100, "Paid"), SvcPayment("PMT-1", 0, "Paid")}

\* payments given to update_payment
UpdateInputs ==
    {SvcPayment("PMT-1", a, st) : a \in {100, 200}, st \in PaymentStatuses}
    \cup {SvcPayment("PMT-2", 200, "Paid"), SvcPayment("PMT-1", 0, "Paid")}

\* the payment update_payment_status and add_installment are called on
StatusIds == {"PMT-1"}
AdditionalAmounts == {None, Some(50), Some(0)}
InstallmentAmounts == {50, 0}
ServiceFaults == {"none", "commit"}

\* the generated id was stored: the next call gets another one
UuidAfter(d) ==
    IF \E i \in d.installments : i.id = UuidInstId(uuid) THEN uuid + 1 ELSE uuid

\* the cached payment of id, if any, expired or not
CachedSnapshot(c, id) == IF id \in DOMAIN c THEN Some(c[id].payment) ELSE None

Init ==
    /\ db = EmptyDb
    /\ cache = EmptyMap
    /\ now = 0
    /\ uuid = 0
    /\ call = NoCall
    /\ rows = <<>>
    /\ agg = None
    /\ pc = EmptyMap
    /\ loc = EmptyMap

CreatePayment(payment, fault) ==
    \E o \in create_payment(db, cache, now, payment, fault) :
        /\ db' = o.db
        /\ cache' = o.cache
        /\ call' = [op |-> "create_payment", id |-> payment.id, arg |-> payment,
                    res |-> o.res, io |-> o.io]
        /\ UNCHANGED <<now, uuid, rows, agg, pc, loc>>

GetPaymentById(id) ==
    \E o \in get_payment_by_id(db, cache, now, id) :
        /\ cache' = o.cache
        /\ call' = [op |-> "get_payment_by_id", id |-> id, res |-> o.res,
                    entry |-> IF id \notin DOMAIN cache THEN "absent"
                              ELSE IF is_expired(cache[id], now) THEN "expired"
                              ELSE "unexpired"]
        /\ UNCHANGED <<db, now, uuid, rows, agg, pc, loc>>

UpdatePayment(payment) ==
    \E o \in update_payment(db, cache, now, payment) :
        /\ db' = o.db
        /\ cache' = o.cache
        /\ call' = [op |-> "update_payment", id |-> payment.id, arg |-> payment,
                    res |-> o.res, wrote |-> o.wrote, io |-> o.io,
                    pre |-> CachedSnapshot(cache, payment.id),
                    hit |-> /\ payment.id \in DOMAIN cache
                            /\ ~is_expired(cache[payment.id], now)]
        /\ UNCHANGED <<now, uuid, rows, agg, pc, loc>>

UpdatePaymentStatus(payment_id, new_status, additional_amount) ==
    /\ additional_amount # None => uuid < MaxUuid
    /\ \E o \in svc_update_payment_status(db, cache, now, payment_id, new_status,
                                          additional_amount, UuidInstId(uuid)) :
        /\ db' = o.db
        /\ cache' = o.cache
        /\ uuid' = UuidAfter(o.db)
        /\ call' = [op |-> "update_payment_status", id |-> payment_id,
                    status |-> new_status, amount |-> additional_amount,
                    res |-> o.res, io |-> o.io]
        /\ UNCHANGED <<now, rows, agg, pc, loc>>

DeletePayment(payment_id) ==
    \E o \in delete_payment(db, cache, now, payment_id) :
        /\ db' = o.db
        /\ cache' = o.cache
        /\ call' = [op |-> "delete_payment", id |-> payment_id, res |-> o.res,
                    pre |-> CachedSnapshot(cache, payment_id),
                    hit |-> /\ payment_id \in DOMAIN cache
                            /\ ~is_expired(cache[payment_id], now)]
        /\ UNCHANGED <<now, uuid, rows, agg, pc, loc>>

AddInstallment(payment_id, amount) ==
    /\ uuid < MaxUuid
    /\ \E o \in svc_add_installment(db, cache, now, payment_id, amount,
                                    UuidInstId(uuid)) :
        /\ db' = o.db
        /\ cache' = o.cache
        /\ uuid' = UuidAfter(o.db)
        /\ call' = [op |-> "add_installment", id |-> payment_id, amount |-> amount,
                    inst |-> Inst(UuidInstId(uuid), payment_id, amount, DT(now, 0)),
                    before |-> db, res |-> o.res, io |-> o.io]
        /\ UNCHANGED <<now, rows, agg, pc, loc>>

GetAllPayments(filters) ==
    \E o \in get_all_payments(db, cache, now, filters) :
        /\ call' = [op |-> "get_all_payments", filters |-> filters, res |-> o.res,
                    io |-> o.io]
        /\ UNCHANGED <<db, cache, now, uuid, rows, agg, pc, loc>>

\* time passes between two calls: one TTL at a time, so that an entry is
\* seen younger than its TTL, exactly as old, and older
Tick ==
    /\ now < MaxTicks * TTL_SECONDS
    /\ now' = now + TTL_SECONDS
    /\ UNCHANGED <<db, cache, uuid, call, rows, agg, pc, loc>>

Next ==
    \/ \E payment \in CreateInputs, fault \in ServiceFaults :
          CreatePayment(payment, fault)
    \/ \E id \in PaymentIds : GetPaymentById(id)
    \/ \E payment \in UpdateInputs : UpdatePayment(payment)
    \/ \E id \in StatusIds, st \in PaymentStatuses, amt \in AdditionalAmounts :
          UpdatePaymentStatus(id, st, amt)
    \/ \E id \in PaymentIds : DeletePayment(id)
    \/ \E id \in StatusIds, amount \in InstallmentAmounts : AddInstallment(id, amount)
    \/ Tick

Spec == Init /\ [][Next]_vars

\* filters given to get_all_payments: none, valid ones, and invalid ones (a
\* status and a method that do not exist, an unknown key, a blank
\* transaction_id)
ServiceFilterInputs ==
    {None,
     Some("status" :> "lunas"),
     Some("status" :> "BOGUS"),
     Some(("method" :> "CHEQUE") @@ ("transaction_id" :> " ")),
     Some("transaction_id" :> ""),
     Some(("colour" :> "red") @@ ("status" :> "CICILAN"))}

\* the seven calls of the service, one at a time, the clock standing still
NextCalls ==
    \/ \E payment \in CreateInputs, fault \in ServiceFaults :
          CreatePayment(payment, fault)
    \/ \E id \in PaymentIds : GetPaymentById(id)
    \/ \E filters \in ServiceFilterInputs : GetAllPayments(filters)
    \/ \E payment \in UpdateInputs : UpdatePayment(payment)
    \/ \E id \in StatusIds, st \in PaymentStatuses, amt \in AdditionalAmounts :
          UpdatePaymentStatus(id, st, amt)
    \/ \E id \in PaymentIds : DeletePayment(id)
    \/ \E id \in StatusIds, amount \in InstallmentAmounts : AddInstallment(id, amount)

SpecCalls == Init /\ [][NextCalls]_vars

-----------------------------------------------------------------------------
(* Properties of the service, one call at a time *)

WriteOps ==
    {"create_payment", "update_payment", "update_payment_status",
     "add_installment", "delete_payment"}

\* the entry of id, if unexpired, is a payment as the database holds it
CacheAgreesWithStore(d, c, t, id) ==
    (id \in DOMAIN c /\ ~is_expired(c[id], t)) =>
        Ok(c[id].payment) \in find_by_id(d, id)

StoredInstallmentsOf(d, id) == {i \in d.installments : i.payment_id = id}

C3_CacheCoherentAfterWrite ==
    (call.op \in WriteOps /\ call.res.ok) =>
        CacheAgreesWithStore(db, cache, now, call.id)

\* C4: a successful add_installment persists exactly one new installment,
\* and the payment it returns has one more installment than the payment had
\* before the call.
C4_AddInstallmentReturnsOneMore ==
    (call.op = "add_installment" /\ call.res.ok) =>
        /\ InstallmentRow(call.inst) \notin call.before.installments
        /\ db.installments = call.before.installments \cup {InstallmentRow(call.inst)}
        /\ Len(call.res.val.installments)
              = Cardinality(StoredInstallmentsOf(call.before, call.id)) + 1

PaidStored(d, id) ==
    \E p \in d.payments : p.id = id /\ p.status = StatusToString("Paid")

\* C6: an add_installment call with a positive amount on a payment stored
\* as Paid returns InvalidInput on payment_status and leaves the database
\* unchanged.
C6_PaidRejectsInstallment ==
    [][(/\ call' # call
        /\ call'.op = "add_installment"
        /\ call'.amount > 0
        /\ PaidStored(db, call'.id)) =>
           /\ call'.res = Err(InvalidInput("payment_status"))
           /\ db' = db]_vars

-----------------------------------------------------------------------------
(* The service under concurrent calls.  Workers call get_payment_by_id,    *)
(* update_payment, update_payment_status and delete_payment on one payment *)
(* id; a call is a sequence of steps, one per access to the cache or to    *)
(* the database, and steps of different workers interleave.  pc[w] is the  *)
(* step worker w is about to take, loc[w] its local variables.             *)

Workers == {"w1", "w2"}

ConcId == "PMT-1"
ConcUpdateInputs == {SvcPayment(ConcId, 200, "Paid")}
ConcStatusInputs == {[status |-> "Installment", amount |-> None],
                     [status |-> "Installment", amount |-> Some(50)]}

Idle(n) == [op |-> "none", n |-> n]

InitConc ==
    /\ db \in {o.db : o \in create(EmptyDb, SvcPayment(ConcId, 100, "Paid"), "none")}
    /\ cache = EmptyMap
    /\ now = 0
    /\ uuid = 0
    /\ call = NoCall
    /\ rows = <<>>
    /\ agg = None
    /\ pc = [w \in Workers |-> "idle"]
    /\ loc = [w \in Workers |-> Idle(0)]

\* worker w returns res from its call
Return(w, res) ==
    /\ pc' = [pc EXCEPT ![w] = "idle"]
    /\ loc' = [loc EXCEPT ![w] = Idle(loc[w].n)]
    /\ call' = [op |-> loc[w].op, id |-> ConcId, worker |-> w, res |-> res]

\* get_payment_by_id has given payment to the operation that called it
AfterGet(w, payment) ==
    IF loc[w].op = "update_payment" /\ ~payments_are_equal(payment, loc[w].arg)
    THEN /\ pc' = [pc EXCEPT ![w] = "update_tx"]
         /\ UNCHANGED <<loc, call>>
    ELSE IF loc[w].op = "delete_payment"
    THEN /\ pc' = [pc EXCEPT ![w] = "delete_tx"]
         /\ UNCHANGED <<loc, call>>
    ELSE Return(w, Ok(payment))

StartGet(w) ==
    /\ pc[w] = "idle" /\ loc[w].n < MaxCalls
    /\ pc' = [pc EXCEPT ![w] = "get_cache"]
    /\ loc' = [loc EXCEPT ![w] = [op |-> "get_payment_by_id", n |-> loc[w].n + 1]]
    /\ UNCHANGED <<db, cache, now, uuid, call, rows, agg>>

StartUpdate(w, payment) ==
    /\ pc[w] = "idle" /\ loc[w].n < MaxCalls
    /\ validate_payment(payment).ok
    /\ pc' = [pc EXCEPT ![w] = "get_cache"]
    /\ loc' = [loc EXCEPT ![w] =
                  [op |-> "update_payment", n |-> loc[w].n + 1, arg |-> payment]]
    /\ UNCHANGED <<db, cache, now, uuid, call, rows, agg>>

StartDelete(w) ==
    /\ pc[w] = "idle" /\ loc[w].n < MaxCalls
    /\ pc' = [pc EXCEPT ![w] = "get_cache"]
    /\ loc' = [loc EXCEPT ![w] = [op |-> "delete_payment", n |-> loc[w].n + 1]]
    /\ UNCHANGED <<db, cache, now, uuid, call, rows, agg>>

StartUpdateStatus(w, arg) ==
    /\ pc[w] = "idle" /\ loc[w].n < MaxCalls
    /\ arg.amount # None => arg.amount[1] > 0 /\ uuid < MaxUuid
    /\ pc' = [pc EXCEPT ![w] = "status_tx"]
    /\ loc' = [loc EXCEPT ![w] =
                  [op |-> "update_payment_status", n |-> loc[w].n + 1, arg |-> arg,
                   inst_id |-> UuidInstId(uuid)]]
    /\ uuid' = IF arg.amount = None THEN uuid ELSE uuid + 1
    /\ UNCHANGED <<db, cache, now, call, rows, agg>>

\* get_payment_by_id: get_cached_payment and is_expired
GetCache(w) ==
    /\ pc[w] = "get_cache"
    /\ LET cached == get_cached_payment(cache, ConcId)
       IN IF cached = None
          THEN /\ pc' = [pc EXCEPT ![w] = "get_db"]
               /\ UNCHANGED <<loc, call>>
          ELSE IF is_expired(cached[1], now)
          THEN /\ pc' = [pc EXCEPT ![w] = "get_remove"]
               /\ UNCHANGED <<loc, call>>
          ELSE AfterGet(w, cached[1].payment)
    /\ UNCHANGED <<db, cache, now, uuid, rows, agg>>

\* get_payment_by_id: remove_from_cache of the expired entry
GetRemove(w) ==
    /\ pc[w] = "get_remove"
    /\ cache' = remove_from_cache(cache, ConcId)
    /\ pc' = [pc EXCEPT ![w] = "get_db"]
    /\ UNCHANGED <<db, now, uuid, call, rows, agg, loc>>

\* get_payment_by_id: find_by_id
GetDb(w) ==
    /\ pc[w] = "get_db"
    /\ \E r \in find_by_id(db, ConcId) :
          IF r.ok
          THEN /\ pc' = [pc EXCEPT ![w] = "get_store"]
               /\ loc' = [loc EXCEPT ![w] = @ @@ [got |-> r.val]]
               /\ UNCHANGED call
          ELSE Return(w, Err(NotFoundOrConvert(r.err, ConcId)))
    /\ UNCHANGED <<db, cache, now, uuid, rows, agg>>

\* get_payment_by_id: cache_payment of what find_by_id gave
GetStore(w) ==
    /\ pc[w] = "get_store"
    /\ cache' = cache_payment(cache, ConcId, loc[w].got, TTL_SECONDS, now)
    /\ AfterGet(w, loc[w].got)
    /\ UNCHANGED <<db, now, uuid, rows, agg>>

\* update_payment: the UPDATE transaction of the repository
UpdateTx(w) ==
    /\ pc[w] = "update_tx"
    /\ db' = UpdatePaymentRow(db, loc[w].arg)
    /\ pc' = [pc EXCEPT ![w] = "update_reread"]
    /\ UNCHANGED <<cache, now, uuid, call, rows, agg, loc>>

\* update_payment, update_payment_status: the repository's find_by_id
\* after its commit
Reread(w) ==
    /\ pc[w] \in {"update_reread", "status_reread"}
    /\ \E r \in find_by_id(db, ConcId) :
          IF r.ok
          THEN /\ pc' = [pc EXCEPT ![w] = "refresh"]
               /\ loc' = [loc EXCEPT ![w] = [op |-> @.op, n |-> @.n, got |-> r.val]]
               /\ UNCHANGED call
          ELSE Return(w, Err(IF pc[w] = "update_reread"
                             THEN convert_sqlx_error(r.err)
                             ELSE NotFoundOrConvert(r.err, ConcId)))
    /\ UNCHANGED <<db, cache, now, uuid, rows, agg>>

\* update_payment, update_payment_status: cache_payment of the re-read
Refresh(w) ==
    /\ pc[w] = "refresh"
    /\ cache' = cache_payment(cache, ConcId, loc[w].got, TTL_SECONDS, now)
    /\ Return(w, Ok(loc[w].got))
    /\ UNCHANGED <<db, now, uuid, rows, agg>>

\* update_payment_status: the repository's transaction; the installment has
\* the id generated for this call
StatusTx(w) ==
    /\ pc[w] = "status_tx"
    /\ LET r == update_payment_status_tx(db, ConcId, loc[w].arg.status,
                                         loc[w].arg.amount, loc[w].inst_id, now)
       IN IF r.ok
          THEN /\ db' = r.val
               /\ pc' = [pc EXCEPT ![w] = "status_reread"]
               /\ UNCHANGED <<loc, call>>
          ELSE /\ Return(w, Err(NotFoundOrConvert(r.err, ConcId)))
               /\ UNCHANGED db
    /\ UNCHANGED <<cache, now, uuid, rows, agg>>

\* delete_payment: the repository's transaction
DeleteTx(w) ==
    /\ pc[w] = "delete_tx"
    /\ db' = delete(db, ConcId).db
    /\ pc' = [pc EXCEPT ![w] = "delete_uncache"]
    /\ UNCHANGED <<cache, now, uuid, call, rows, agg, loc>>

\* delete_payment: remove_from_cache
DeleteUncache(w) ==
    /\ pc[w] = "delete_uncache"
    /\ cache' = remove_from_cache(cache, ConcId)
    /\ Return(w, Ok(Unit))
    /\ UNCHANGED <<db, now, uuid, rows, agg>>

TickConc ==
    /\ now < MaxTicks * TTL_SECONDS
    /\ now' = now + TTL_SECONDS
    /\ UNCHANGED <<db, cache, uuid, call, rows, agg, pc, loc>>

NextConc ==
    \/ \E w \in Workers : StartGet(w)
    \/ \E w \in Workers, payment \in ConcUpdateInputs : StartUpdate(w, payment)
    \/ \E w \in Workers : StartDelete(w)
    \/ \E w \in Workers, arg \in ConcStatusInputs : StartUpdateStatus(w, arg)
    \/ \E w \in Workers : GetCache(w)
    \/ \E w \in Workers : GetRemove(w)
    \/ \E w \in Workers : GetDb(w)
    \/ \E w \in Workers : GetStore(w)
    \/ \E w \in Workers : UpdateTx(w)
    \/ \E w \in Workers : Reread(w)
    \/ \E w \in Workers : Refresh(w)
    \/ \E w \in Workers : StatusTx(w)
    \/ \E w \in Workers : DeleteTx(w)
    \/ \E w \in Workers : DeleteUncache(w)
    \/ TickConc

SpecConc == InitConc /\ [][NextConc]_vars

AllReturned == \A w \in Workers : pc[w] = "idle"

\* add_installment called while no other call is in progress, and returning
\* before the next call starts
AddInstallmentAlone(payment_id, amount) ==
    /\ AllReturned
    /\ AddInstallment(payment_id, amount)

NextConcAdd ==
    \/ NextConc
    \/ \E amount \in InstallmentAmounts : AddInstallmentAlone(ConcId, amount)

\* the concurrent calls, and add_installment calls between them
SpecConcAdd == InitConc /\ [][NextConcAdd]_vars

\* C2: under every interleaving of get_payment_by_id, update_payment,
\* update_payment_status and delete_payment on one id, once all calls have
\* returned the cache holds no entry for the id or a payment equal to the
\* one the database holds.
C2_CacheAgreesWhenQuiescent ==
    AllReturned =>
        \/ ConcId \notin DOMAIN cache
        \/ Ok(cache[ConcId].payment) \in find_by_id(db, ConcId)

-----------------------------------------------------------------------------
(* The store under a read concurrent with update_payment_status.  One      *)
(* caller runs update_payment_status with an additional amount, of either  *)
(* repository, statement by statement (a transaction takes effect at its   *)
(* COMMIT, a statement outside a transaction when it is executed); another *)
(* caller reads with find_by_id between any two of its steps.              *)

MaxStatusWrites == 2

StatusReadId == "PMT-1"
StatusReadStores ==
    {EmptyDb}
    \cup {o.db : o \in create(EmptyDb, SvcPayment(StatusReadId, 100, "Paid"), "none")}
    \cup {o.db : o \in create(EmptyDb, SvcPayment(StatusReadId, 100, "Installment"),
                              "none")}
StatusReadAmounts == {Some(50)}

InitStatusRead ==
    /\ db \in StatusReadStores
    /\ cache = EmptyMap
    /\ now = 0
    /\ uuid = 0
    /\ call = NoCall
    /\ rows = <<>>
    /\ agg = None
    /\ pc = "idle"
    /\ loc = None

\* the installment update_payment_status builds
StatusInstallment(l) ==
    [id |-> l.inst_id, payment_id |-> l.id, amount |-> l.amount[1],
     payment_date |-> DT(now, 0)]

StatusReturn(res) ==
    /\ call' = [op |-> "update_payment_status", repo |-> loc.repo, id |-> loc.id,
                status |-> loc.status, res |-> res]
    /\ pc' = "idle"
    /\ loc' = None

\* a call of update_payment_status begins: the id of its installment is
\* fresh
StartStatus(repo, new_status, additional_amount) ==
    /\ pc = "idle"
    /\ uuid < MaxStatusWrites
    /\ uuid' = uuid + 1
    /\ loc' = [repo |-> repo, id |-> StatusReadId, status |-> new_status,
               amount |-> additional_amount, inst_id |-> UuidInstId(uuid),
               before |-> db, payment |-> None]
    /\ pc' = IF repo = "optimized" THEN "tx" ELSE "select"
    /\ UNCHANGED <<db, cache, now, call, rows, agg>>

\* OptimizedPembayaranRepository::update_payment_status: the transaction
OptStatusTx ==
    /\ pc = "tx"
    /\ LET r == update_payment_status_tx(db, loc.id, loc.status, loc.amount,
                                         loc.inst_id, now)
       IN IF r.ok
          THEN /\ db' = r.val
               /\ pc' = "reread"
               /\ UNCHANGED <<loc, call>>
          ELSE /\ StatusReturn(r)
               /\ UNCHANGED db
    /\ UNCHANGED <<cache, now, uuid, rows, agg>>

\* OptimizedPembayaranRepository::update_payment_status: find_by_id
OptStatusReread ==
    /\ pc = "reread"
    /\ \E r \in find_by_id(db, loc.id) : StatusReturn(r)
    /\ UNCHANGED <<db, cache, now, uuid, rows, agg>>

\* PembayaranRepository::update_payment_status: SELECT the payment, set the
\* status of the payment in memory
NaiveStatusSelect ==
    /\ pc = "select"
    /\ LET r == naive_select_payment(db, loc.id)
       IN IF r.ok
          THEN /\ loc' = [loc EXCEPT !.payment =
                                Some([r.val EXCEPT !.status = loc.status])]
               /\ pc' = "add_installment"
               /\ UNCHANGED call
          ELSE StatusReturn(r)
    /\ UNCHANGED <<db, cache, now, uuid, rows, agg>>

\* PembayaranRepository::update_payment_status: add_installment
NaiveStatusAddInstallment ==
    /\ pc = "add_installment"
    /\ LET r == insert_installment_tx(db, StatusInstallment(loc))
       IN IF r.ok
          THEN /\ db' = r.val
               /\ pc' = "update"
               /\ UNCHANGED <<loc, call>>
          ELSE /\ StatusReturn(r)
               /\ UNCHANGED db
    /\ UNCHANGED <<cache, now, uuid, rows, agg>>

\* PembayaranRepository::update_payment_status: Self::update, the UPDATE
NaiveStatusUpdate ==
    /\ pc = "update"
    /\ db' = UpdatePaymentRow(db, loc.payment[1])
    /\ pc' = "load"
    /\ UNCHANGED <<cache, now, uuid, call, rows, agg, loc>>

\* PembayaranRepository::update_payment_status: Self::update, the SELECT and
\* load_payment_with_installments
NaiveStatusLoad ==
    /\ pc = "load"
    /\ \E o \in naive_update(db, loc.payment[1]) : StatusReturn(o.res)
    /\ UNCHANGED <<db, cache, now, uuid, rows, agg>>

\* a read by another caller; writing is the call of update_payment_status in
\* progress, if any
ReadById ==
    \E r \in find_by_id(db, StatusReadId) :
        /\ call' = [op |-> "find_by_id", id |-> StatusReadId, res |-> r,
                    writing |-> IF pc = "idle" THEN None ELSE Some(loc)]
        /\ UNCHANGED <<db, cache, now, uuid, rows, agg, pc, loc>>

NextStatusRead ==
    \/ \E repo \in {"optimized", "naive"}, new_status \in PaymentStatuses,
          additional_amount \in StatusReadAmounts :
          StartStatus(repo, new_status, additional_amount)
    \/ OptStatusTx
    \/ OptStatusReread
    \/ NaiveStatusSelect
    \/ NaiveStatusAddInstallment
    \/ NaiveStatusUpdate
    \/ NaiveStatusLoad
    \/ ReadById

SpecStatusRead == InitStatusRead /\ [][NextStatusRead]_vars

\* what a read shows of the payment: its status and whether the installment
\* of the call in progress is there
Observed(payment, inst_id) ==
    [status |-> payment.status,
     new |-> \E k \in DOMAIN payment.installments :
                 payment.installments[k].id = inst_id]

\* the state before the call and the state after it
BeforeOrAfter(l) ==
    {[status |-> r.val.status, new |-> FALSE]
        : r \in {q \in find_by_id(l.before, l.id) : q.ok}}
    \cup {[status |-> l.status, new |-> TRUE]}

ReadDuringStatusWrite(c) ==
    /\ c.op = "find_by_id"
    /\ c.writing # None
    /\ c.res.ok

\* C12 as stated: a read concurrent with update_payment_status(id, s, an
\* amount), of either repository, observes the payment as it was before the
\* call or as it is after it: never status s without the new installment,
\* never the new installment with the old status.
C12_StatusReadAtomic ==
    ReadDuringStatusWrite(call) =>
        Observed(call.res.val, call.writing[1].inst_id)
            \in BeforeOrAfter(call.writing[1])

\* the same for a call of OptimizedPembayaranRepository alone: it holds.
OptimizedStatusReadAtomic ==
    (ReadDuringStatusWrite(call) /\ call.writing[1].repo = "optimized") =>
        Observed(call.res.val, call.writing[1].inst_id)
            \in BeforeOrAfter(call.writing[1])

-----------------------------------------------------------------------------
(* validate_payment as a function of the payment it is given *)

MaxInstallments == 2

ValidateIds == {"PMT-1", "", " "}
ValidateTransactionIds == {"TXN-1", "", " "}
ValidateAmounts == {100, 0, -1}
ValidateInstallments ==
    {Inst("INST-A", pid, amt, DT(1, 0)) : pid \in {"PMT-1", "PMT-2"}, amt \in {50, 0}}
ValidateInstallmentSeqs ==
    UNION {[1..n -> ValidateInstallments] : n \in 0..MaxInstallments}

ValidateInputs ==
    {[id |-> id, transaction_id |-> tid, amount |-> amt, method |-> "Cash",
      status |-> st, payment_date |-> DT(0, 0), installments |-> is,
      due_date |-> None]
     : id \in ValidateIds, tid \in ValidateTransactionIds,
       amt \in ValidateAmounts, st \in PaymentStatuses,
       is \in ValidateInstallmentSeqs}

InitValidate ==
    /\ db = EmptyDb
    /\ cache = EmptyMap
    /\ now = 0
    /\ uuid = 0
    /\ call \in {[op |-> "payment", arg |-> p] : p \in ValidateInputs}
    /\ rows = <<>>
    /\ agg = None
    /\ pc = EmptyMap
    /\ loc = EmptyMap

Validate ==
    /\ call.op = "payment"
    /\ call' = [op |-> "validate_payment", arg |-> call.arg,
                res |-> validate_payment(call.arg)]
    /\ UNCHANGED <<db, cache, now, uuid, rows, agg, pc, loc>>

NextValidate == Validate

SpecValidate == InitValidate /\ [][NextValidate]_vars

IsEmptyString(str) == str = ""

\* the rules a payment violates, one entry per rule and, for the rules on
\* installments, per offending installment (i is its position, from 1)
Violations(payment, IsEmptyText(_)) ==
    {[rule |-> "id", i |-> 0] : x \in {y \in {1} : IsEmptyText(payment.id)}}
    \cup {[rule |-> "transaction_id", i |-> 0]
             : x \in {y \in {1} : IsEmptyText(payment.transaction_id)}}
    \cup {[rule |-> "amount", i |-> 0] : x \in {y \in {1} : payment.amount <= 0}}
    \cup {[rule |-> "no_installments", i |-> 0]
             : x \in {y \in {1} : /\ payment.status = "Installment"
                                   /\ Len(payment.installments) = 0}}
    \cup {[rule |-> "installment_amount", i |-> k]
             : k \in {j \in DOMAIN payment.installments
                         : payment.installments[j].amount <= 0}}
    \cup {[rule |-> "installment_payment_id", i |-> k]
             : k \in {j \in DOMAIN payment.installments
                         : payment.installments[j].payment_id # payment.id}}

RuleMessage(rule) ==
    CASE rule = "id" -> "Payment ID cannot be empty"
      [] rule = "transaction_id" -> "Transaction ID cannot be empty"
      [] rule = "amount" -> "Payment amount must be greater than 0"
      [] rule = "no_installments" ->
            "Payment with INSTALLMENT status must have at least one installment"
      [] rule = "installment_amount" -> "Installment amount must be greater than 0"
      [] rule = "installment_payment_id" ->
            "Installment payment_id does not match payment ID"

\* res is Ok when V is empty, and otherwise one ValidationError listing a
\* message for every violation of V and nothing else
ReportsExactly(res, V) ==
    IF V = {} THEN res = Ok(Unit)
    ELSE /\ ~res.ok
         /\ res.err.kind = "ValidationError"
         /\ Len(res.err.errors) = Cardinality(V)
         /\ Range(res.err.errors) = {[msg |-> RuleMessage(v.rule), i |-> v.i] : v \in V}

\* C13 as stated: validate(payment) returns Ok exactly when the id is not
\* empty, the transaction_id is not empty, the amount is positive, a payment
\* of status Installment has an installment, and every installment has a
\* positive amount and the payment's id; otherwise one ValidationError with
\* a message for every violation.
C13_ValidateAllViolations ==
    call.op = "validate_payment" =>
        ReportsExactly(call.res, Violations(call.arg, IsEmptyString))

\* C13 amended: the same, where an id or a transaction_id is in violation
\* when it is empty or consists of white space only.
ValidateAllViolationsTrimmed ==
    call.op = "validate_payment" =>
        ReportsExactly(call.res, Violations(call.arg, IsBlank))

\* a payment violating five rules at once, its id being white space
C13_Witness ==
    /\ call.op = "validate_payment"
    /\ call.arg.id = " "
    /\ ~call.res.ok
    /\ Len(call.res.err.errors) >= 5

-----------------------------------------------------------------------------
(* Calls the service rejects on their input *)

\* a filter map validate_filters has a complaint about
InvalidFilters(filters) ==
    /\ filters # None
    /\ \E k \in DOMAIN filters[1] :
          \/ k \notin {"status", "method", "transaction_id"}
          \/ k = "status" /\ to_uppercase(filters[1][k]) \notin {"LUNAS", "CICILAN"}
          \/ k = "method" /\ to_uppercase(filters[1][k]) \notin
                                {"CASH", "CREDIT_CARD", "BANK_TRANSFER", "E_WALLET"}
          \/ k = "transaction_id" /\ IsBlank(filters[1][k])

\* the call c has an input the service does not accept, and kind is the
\* error it is to return
RejectedOnInput(c, kind) ==
    \/ /\ c.op \in {"create_payment", "update_payment"}
       /\ Violations(c.arg, IsBlank) # {}
       /\ kind = "ValidationError"
    \/ /\ c.op = "update_payment_status"
       /\ c.amount # None
       /\ c.amount[1] <= 0
       /\ kind = "InvalidInput"
    \/ /\ c.op = "add_installment"
       /\ c.amount <= 0
       /\ kind = "InvalidInput"
    \/ /\ c.op = "get_all_payments"
       /\ InvalidFilters(c.filters)
       /\ kind = "ValidationError"

\* C14: a call of create_payment or update_payment with an invalid payment,
\* of update_payment_status or add_installment with an amount <= 0, or of
\* get_all_payments with an invalid filter returns its error having
\* acquired no connection and accessed neither the store nor the cache,
\* and leaves the store and the cache as they were.
C14_RejectedBeforeAnyAccess ==
    [][\A kind \in {"ValidationError", "InvalidInput"} :
          RejectedOnInput(call', kind) =>
             /\ ~call'.res.ok
             /\ call'.res.err.kind = kind
             /\ call'.io = {}
             /\ db' = db
             /\ cache' = cache]_vars

\* update_payment with an invalid payment, on a payment that is stored and
\* cached, was rejected
C14_Witness ==
    /\ call.op = "update_payment"
    /\ ~call.res.ok
    /\ call.res.err.kind = "ValidationError"
    /\ call.io = {}
    /\ HasPayment(db, call.id)
    /\ call.id \in DOMAIN cache

-----------------------------------------------------------------------------
(* update_payment with a payment that changes nothing *)

\* payment is logically identical to the payment stored under its id: same
\* id, transaction_id, amount, method, status and number of installments
LogicallyIdenticalToStored(payment, d) ==
    /\ \E p \in d.payments :
          /\ p.id = payment.id
          /\ p.transaction_id = payment.transaction_id
          /\ p.amount = payment.amount
          /\ p.method = MethodToString(payment.method)
          /\ p.status = StatusToString(payment.status)
    /\ Cardinality(StoredInstallmentsOf(d, payment.id)) = Len(payment.installments)

\* C15 as stated: update_payment(p) with p logically identical to the
\* stored payment performs no write on the store and returns the existing
\* payment.
C15_UpdateIdenticalWritesNothing ==
    [][(/\ call'.op = "update_payment"
        /\ LogicallyIdenticalToStored(call'.arg, db)) =>
           /\ ~call'.wrote
           /\ db' = db
           /\ call'.res \in find_by_id(db, call'.id)]_vars

\* the same when the cache holds no entry for the id that differs from the
\* stored payment: it holds.
UpdateIdenticalWritesNothingWhenCoherent ==
    [][(/\ call'.op = "update_payment"
        /\ LogicallyIdenticalToStored(call'.arg, db)
        /\ call'.id \in DOMAIN cache =>
               Ok(cache[call'.id].payment) \in find_by_id(db, call'.id)) =>
           /\ ~call'.wrote
           /\ db' = db
           /\ call'.res \in find_by_id(db, call'.id)]_vars

-----------------------------------------------------------------------------
(* The time to live of a cache entry *)

\* what get_payment_by_id is to return from the store d for id
ReadFromStore(d, id) ==
    {IF r.ok THEN r ELSE Err(NotFoundOrConvert(r.err, id)) : r \in find_by_id(d, id)}

\* C16: every entry has a TTL of 300 seconds.  get_payment_by_id returns the
\* cached snapshot, and leaves the cache alone, while now - cached_at <= 300
\* (an entry exactly 300 seconds old is still a hit); an older entry is a
\* miss: the payment is read from the store, and the result read replaces
\* the entry, cached at now, and is returned (the entry is gone when the
\* store has no such payment).
C16_TtlBoundary ==
    [][(/\ call'.op = "get_payment_by_id"
        /\ now' = now
        /\ call'.id \in DOMAIN cache) =>
           LET id == call'.id
               entry == cache[id]
           IN /\ entry.ttl_seconds = 300
              /\ IF now - entry.cached_at <= 300
                 THEN /\ call'.res = Ok(entry.payment)
                      /\ cache' = cache
                 ELSE /\ call'.res \in ReadFromStore(db, id)
                      /\ IF call'.res.ok
                         THEN cache' = [cache EXCEPT ![id] =
                                          [payment |-> call'.res.val,
                                           cached_at |-> now,
                                           ttl_seconds |-> 300]]
                         ELSE /\ DOMAIN cache' = DOMAIN cache \ {id}
                              /\ \A k \in DOMAIN cache' : cache'[k] = cache[k]]_vars

\* a get_payment_by_id that found an entry older than its TTL, read the
\* payment from the store and cached it
C16_Witness ==
    /\ call.op = "get_payment_by_id"
    /\ call.entry = "expired"
    /\ call.res.ok
    /\ call.id \in DOMAIN cache
    /\ cache[call.id] = [payment |-> call.res.val, cached_at |-> now,
                         ttl_seconds |-> 300]

\* a get_payment_by_id answered from an entry exactly as old as its TTL
HitAtTtl ==
    /\ call.op = "get_payment_by_id"
    /\ call.entry = "unexpired"
    /\ call.id \in DOMAIN cache
    /\ now - cache[call.id].cached_at = 300
    /\ call.res = Ok(cache[call.id].payment)

-----------------------------------------------------------------------------
(* find_by_id and the payment without installments *)

\* C17: find_by_id returns NotFound (RowNotFound) exactly when the store has
\* no payment row of that id; a stored payment is returned with exactly its
\* stored installments, so one without installments comes with an empty
\* list: never NotFound, never an installment that is not stored.
C17_FoundIffRowExists ==
    call.op = "find_by_id" =>
        IF HasPayment(db, call.id)
        THEN /\ call.res.ok
             /\ call.res.val.id = call.id
             /\ Len(call.res.val.installments)
                   = Cardinality(StoredInstallmentsOf(db, call.id))
             /\ \A k \in DOMAIN call.res.val.installments :
                   \E i \in StoredInstallmentsOf(db, call.id) :
                       i.id = call.res.val.installments[k].id
        ELSE call.res = Err(RowNotFound)

\* a stored payment without installments was found, with an empty list
C17_Witness ==
    /\ call.op = "find_by_id"
    /\ HasPayment(db, call.id)
    /\ StoredInstallmentsOf(db, call.id) = {}
    /\ call.res.ok
    /\ call.res.val.installments = <<>>

-----------------------------------------------------------------------------
(* update_payment_status on a payment that is not stored *)

\* C18: update_payment_status(id, new_status, None) when no payment with
\* that id is stored returns NotFound for the entity Payment and that id,
\* for either status, and leaves the store unchanged.
C18_StatusOfAbsentPayment ==
    [][(/\ call'.op = "update_payment_status"
        /\ now' = now
        /\ call'.amount = None
        /\ ~HasPayment(db, call'.id)) =>
           /\ call'.res = Err([kind |-> "NotFound", entity |-> "Payment",
                               id |-> call'.id])
           /\ db' = db]_vars

\* the call was made for a payment that is not stored, another one being
\* stored
C18_Witness ==
    /\ call.op = "update_payment_status"
    /\ call.amount = None
    /\ call.status = "Installment"
    /\ ~HasPayment(db, call.id)
    /\ db.payments # {}
    /\ ~call.res.ok
    /\ call.res.err.kind = "NotFound"

-----------------------------------------------------------------------------
(* delete_payment on a payment that is not stored *)

\* C19 as stated: delete_payment(id), of either service, when no payment
\* with that id is stored (as after a successful delete_payment(id)) and the
\* database does not fail returns NotFound, not a storage error and not
\* success, and deletes nothing.
C19_DeleteVerifiesExistence ==
    [][(/\ call'.op = "delete_payment"
        /\ now' = now
        /\ "fault" \in DOMAIN call' => call'.fault = "none"
        /\ ~HasPayment(db, call'.id)) =>
           /\ ~call'.res.ok
           /\ call'.res.err.kind = "NotFound"
           /\ db' = db]_vars

-----------------------------------------------------------------------------
(* What update changes *)

IsUpdateCall(c) == c.op \in {"update", "naive_update"}

\* C20: update(payment), of either repository, changes only the scalar
\* fields of the payment row whose id is payment.id, which become those of
\* payment: the installments of every payment and every other payment row
\* stay as they are, also when payment.installments is not what is stored,
\* and the payment it returns has the stored installments; when no row has
\* payment.id it returns NotFound (RowNotFound) and creates no row.
C20_UpdateScalarsOnly ==
    [][IsUpdateCall(call') =>
          LET payment == call'.arg
          IN /\ db'.installments = db.installments
             /\ {p \in db'.payments : p.id # payment.id}
                   = {p \in db.payments : p.id # payment.id}
             /\ IF HasPayment(db, payment.id)
                THEN /\ {p \in db'.payments : p.id = payment.id}
                           = {PaymentRow(payment)}
                     /\ call'.res.ok
                     /\ SameScalars(payment, call'.res.val)
                     /\ Len(call'.res.val.installments)
                           = Cardinality(StoredInstallmentsOf(db, payment.id))
                ELSE /\ call'.res = Err(RowNotFound)
                     /\ db' = db]_vars

\* an update that changed a row, given a payment whose installments are
\* not the stored ones
C20_Witness ==
    /\ call.op = "update"
    /\ call.res.ok
    /\ PaymentRow(call.arg) \in db.payments
    /\ Len(call.arg.installments) # Len(call.res.val.installments)
    /\ Cardinality(db.payments) = 2

-----------------------------------------------------------------------------
(* Which operations change a stored status *)

\* the status stored for id changes in the step
StoredStatusChanges(id) ==
    \E p \in db.payments, q \in db'.payments :
        p.id = id /\ q.id = id /\ p.status # q.status

\* C21 as stated: in every step in which the stored status of an existing
\* payment changes, the operation executed is update_payment_status.
C21_StatusOnlyThroughUpdateStatus ==
    [][(\E id \in PaymentIds : StoredStatusChanges(id)) =>
          call'.op = "update_payment_status"]_vars

\* what does hold: a stored status changes only in update_payment_status and
\* update_payment.
StatusOnlyThroughUpdates ==
    [][(\E id \in PaymentIds : StoredStatusChanges(id)) =>
          call'.op \in {"update_payment_status", "update_payment"}]_vars

-----------------------------------------------------------------------------
(* What update_payment_status does to a stored payment *)

\* row q is row p with the status s and nothing else changed
SameRowWithStatus(p, q, s) ==
    /\ q.id = p.id
    /\ q.transaction_id = p.transaction_id
    /\ q.amount = p.amount
    /\ q.method = p.method
    /\ q.payment_date = p.payment_date
    /\ q.due_date = p.due_date
    /\ q.status = StatusToString(s)

\* C22: update_payment_status(id, s, amount) on a stored payment, with no
\* amount or a positive one, succeeds whatever the stored status and s are,
\* sets the stored status to s, leaves transaction_id, amount, method,
\* payment_date and due_date and every other payment as they are, and adds
\* exactly one installment, of that payment and of the given amount, when
\* an amount is given, and none when it is not.
C22_StatusUpdateEffect ==
    [][(/\ call'.op = "update_payment_status"
        /\ now' = now
        /\ HasPayment(db, call'.id)
        /\ call'.amount # None => call'.amount[1] > 0) =>
           /\ call'.res.ok
           /\ call'.res.val.status = call'.status
           /\ \E p \in db.payments :
                 /\ p.id = call'.id
                 /\ \E q \in db'.payments : SameRowWithStatus(p, q, call'.status)
           /\ {q \in db'.payments : q.id # call'.id}
                 = {p \in db.payments : p.id # call'.id}
           /\ db.installments \subseteq db'.installments
           /\ IF call'.amount = None THEN db'.installments = db.installments
              ELSE \E i \in db'.installments :
                     /\ db'.installments \ db.installments = {i}
                     /\ i.payment_id = call'.id
                     /\ i.amount = call'.amount[1]]_vars

\* a payment by installments, its installment stored, was set to Paid with
\* an additional amount
C22_Witness ==
    /\ call.op = "update_payment_status"
    /\ call.status = "Paid"
    /\ call.amount = Some(50)
    /\ call.res.ok
    /\ Len(call.res.val.installments) = 2
    /\ PaidStored(db, call.id)

-----------------------------------------------------------------------------
(* The filters get_all_payments rejects *)

FilterKeys == {"status", "method", "transaction_id"}

\* the complaints a filter map gives rise to: an unknown key, a status or a
\* method that is, in upper case, none of the fixed set, an empty
\* transaction_id
FilterComplaints(filter_map) ==
    {[msg |-> "Unknown filter key", arg |-> k] : k \in DOMAIN filter_map \ FilterKeys}
    \cup {[msg |-> "Invalid status filter", arg |-> filter_map[k]]
            : k \in {j \in DOMAIN filter_map \cap {"status"}
                        : to_uppercase(filter_map[j]) \notin {"LUNAS", "CICILAN"}}}
    \cup {[msg |-> "Invalid method filter", arg |-> filter_map[k]]
            : k \in {j \in DOMAIN filter_map \cap {"method"}
                        : to_uppercase(filter_map[j]) \notin
                             {"CASH", "CREDIT_CARD", "BANK_TRANSFER", "E_WALLET"}}}
    \cup {[msg |-> "Transaction ID filter cannot be empty", arg |-> ""]
            : k \in {j \in DOMAIN filter_map \cap {"transaction_id"}
                        : filter_map[j] = ""}}

\* C23: get_all_payments, given a filter map with an unknown key, with a
\* status or method the parsing helpers do not accept, or with an empty
\* transaction_id, returns a ValidationError that names every such entry
\* (an unknown key is not ignored), and no query has run.
C23_FiltersRejected ==
    call.op = "get_all_payments" =>
        LET complaints == IF call.filters = None THEN {}
                          ELSE FilterComplaints(call.filters[1])
        IN complaints # {} =>
              /\ ~call.res.ok
              /\ call.res.err.kind = "ValidationError"
              /\ complaints \subseteq Range(call.res.err.errors)
              /\ "store" \notin call.io
              /\ "pool" \notin call.io

\* a filter with an unknown key and a valid status that a stored payment
\* has was rejected
C23_Witness ==
    /\ call.op = "get_all_payments"
    /\ call.filters = Some(("colour" :> "red") @@ ("status" :> "CICILAN"))
    /\ ~call.res.ok
    /\ \E p \in db.payments : p.status = "CICILAN"

-----------------------------------------------------------------------------
(* What find_all selects *)

\* the stored row satisfies the filter: each key among status, method and
\* transaction_id the map holds names a column whose stored text is the
\* filter's value
RowSatisfies(row, filter_map) ==
    \A key \in DOMAIN filter_map \cap FilterKeys : row[key] = filter_map[key]

\* the stored payments a filter asks for
Selected(d, filters) ==
    IF filters = None THEN d.payments
    ELSE {row \in d.payments : RowSatisfies(row, filters[1])}

\* C24: find_all(filters) returns exactly the stored payments that satisfy
\* every filter present in the map, each as an equality on the stored column
\* (status, method, transaction_id), the filters combined by AND; a key that
\* is absent restricts nothing, and find_all(None) returns every stored
\* payment.
C24_FindAllSelection ==
    call.op = "find_all" =>
        /\ call.res.ok
        /\ {call.res.val[k].id : k \in DOMAIN call.res.val}
              = {row.id : row \in Selected(db, call.filters)}
        /\ \A k \in DOMAIN call.res.val :
              LET payment == call.res.val[k]
              IN \E row \in Selected(db, call.filters) :
                    /\ row.id = payment.id
                    /\ row.status = StatusToString(payment.status)
                    /\ row.method = MethodToString(payment.method)
                    /\ row.transaction_id = payment.transaction_id
        /\ call.filters = None => Len(call.res.val) = Cardinality(db.payments)

\* find_all with a status and a method filter has returned one of the two
\* stored payments: the other one has the status but not the method
C24_Witness ==
    /\ call.op = "find_all" /\ call.res.ok
    /\ call.filters = Some(("status" :> "CICILAN") @@ ("method" :> "CREDIT_CARD"))
    /\ Len(call.res.val) = 1
    /\ Cardinality(db.payments) = 2
    /\ \A row \in db.payments : row.status = "CICILAN"

-----------------------------------------------------------------------------
(* The pooled connections of the service.  Workers call get_payment_by_id, *)
(* delete_payment and add_installment on one payment id; a call is a       *)
(* sequence of steps, one per access to the cache, the pool or the         *)
(* database.  loc[w].held lists the bindings of the call of worker w that  *)
(* own a checked-out connection: a connection given by value to a          *)
(* repository function is dropped when that function returns, a connection *)
(* lent by reference stays with its binding until the binding's scope      *)
(* ends.                                                                   *)

MaxConnections == 2     \* connections the pool hands out at a time

PoolAmounts == {50}

PoolStores ==
    {EmptyDb}
    \cup {o.db : o \in create(EmptyDb, SvcPayment(ConcId, 100, "Paid"), "none")}
    \cup {o.db : o \in create(EmptyDb, SvcPayment(ConcId, 100, "Installment"), "none")}

PoolIdle(n) == [op |-> "none", n |-> n, held |-> <<>>]

InitPool ==
    /\ db \in PoolStores
    /\ cache = EmptyMap
    /\ now = 0
    /\ uuid = 0
    /\ call = NoCall
    /\ rows = <<>>
    /\ agg = None
    /\ pc = [w \in Workers |-> "idle"]
    /\ loc = [w \in Workers |-> PoolIdle(0)]

RECURSIVE CheckedOut(_, _)
CheckedOut(l, ws) ==
    IF ws = {} THEN 0
    ELSE LET w == CHOOSE x \in ws : TRUE
         IN Len(l[w].held) + CheckedOut(l, ws \ {w})

\* connections the pool can still hand out
IdleConnections == MaxConnections - CheckedOut(loc, Workers)

\* what went wrong in a call that returns the store's error error
StoreFailure(error) == IF error = RowNotFound THEN "row_absent" ELSE "store"

\* worker w returns res from its call: the bindings of the call go out of
\* scope, and with them the connections they own.  failure is what went
\* wrong: "none", "rejected" (the call refused its input), "acquire" (no
\* connection), "row_absent" or "store" (a statement or a commit failed)
PoolReturn(w, res, failure) ==
    /\ pc' = [pc EXCEPT ![w] = "idle"]
    /\ loc' = [loc EXCEPT ![w] = PoolIdle(loc[w].n)]
    /\ call' = [op |-> loc[w].op, id |-> ConcId, worker |-> w, res |-> res,
                failure |-> failure, held |-> loc[w].held]

\* get_payment_by_id has given payment to the operation that called it
PoolAfterGet(w, payment) ==
    IF loc[w].op = "delete_payment"
    THEN /\ pc' = [pc EXCEPT ![w] = "delete_acquire"]
         /\ UNCHANGED <<loc, call>>
    ELSE IF loc[w].op = "add_installment" /\ loc[w].phase = "check"
    THEN IF payment.status # "Installment"
         THEN PoolReturn(w, Err(InvalidInput("payment_status")), "rejected")
         ELSE /\ pc' = [pc EXCEPT ![w] = "add_acquire"]
              /\ loc' = [loc EXCEPT ![w].payment_date = DT(now, 0)]
              /\ UNCHANGED call
    ELSE PoolReturn(w, Ok(payment), "none")

PoolStartGet(w) ==
    /\ pc[w] = "idle" /\ loc[w].n < MaxCalls
    /\ pc' = [pc EXCEPT ![w] = "get_cache"]
    /\ loc' = [loc EXCEPT ![w] = [op |-> "get_payment_by_id", n |-> loc[w].n + 1,
                                  held |-> <<>>]]
    /\ UNCHANGED <<db, cache, now, uuid, call, rows, agg>>

PoolStartDelete(w) ==
    /\ pc[w] = "idle" /\ loc[w].n < MaxCalls
    /\ pc' = [pc EXCEPT ![w] = "get_cache"]
    /\ loc' = [loc EXCEPT ![w] = [op |-> "delete_payment", n |-> loc[w].n + 1,
                                  held |-> <<>>]]
    /\ UNCHANGED <<db, cache, now, uuid, call, rows, agg>>

\* add_installment, its amount positive: the id of its installment is fresh
PoolStartAdd(w, amount) ==
    /\ pc[w] = "idle" /\ loc[w].n < MaxCalls
    /\ uuid < MaxUuid
    /\ uuid' = uuid + 1
    /\ pc' = [pc EXCEPT ![w] = "get_cache"]
    /\ loc' = [loc EXCEPT ![w] = [op |-> "add_installment", n |-> loc[w].n + 1,
                                  held |-> <<>>, phase |-> "check",
                                  amount |-> amount, inst_id |-> UuidInstId(uuid),
                                  payment_date |-> DT(now, 0)]]
    /\ UNCHANGED <<db, cache, now, call, rows, agg>>

\* get_payment_by_id: the cache lookup
PoolGetCache(w) ==
    /\ pc[w] = "get_cache"
    /\ LET entry == get_cached_payment(cache, ConcId)
       IN IF entry = None
          THEN /\ pc' = [pc EXCEPT ![w] = "get_acquire"]
               /\ UNCHANGED <<loc, call>>
          ELSE IF is_expired(entry[1], now)
          THEN /\ pc' = [pc EXCEPT ![w] = "get_remove"]
               /\ UNCHANGED <<loc, call>>
          ELSE PoolAfterGet(w, entry[1].payment)
    /\ UNCHANGED <<db, cache, now, uuid, rows, agg>>

\* get_payment_by_id: the expired entry is removed
PoolGetRemove(w) ==
    /\ pc[w] = "get_remove"
    /\ cache' = remove_from_cache(cache, ConcId)
    /\ pc' = [pc EXCEPT ![w] = "get_acquire"]
    /\ UNCHANGED <<db, now, uuid, call, rows, agg, loc>>

AcquireSteps == {"get_acquire", "delete_acquire", "add_acquire"}

\* the binding that takes the connection, and the step that uses it
AcquiredBy(step) ==
    CASE step = "get_acquire" -> [binding |-> "get_payment_by_id.conn", next |-> "get_find"]
      [] step = "delete_acquire" -> [binding |-> "delete_payment.conn", next |-> "delete_tx"]
      [] step = "add_acquire" -> [binding |-> "add_installment.conn", next |-> "add_insert"]

\* acquire_connection: the pool hands out a connection
PoolAcquire(w) ==
    /\ pc[w] \in AcquireSteps
    /\ IdleConnections > 0
    /\ pc' = [pc EXCEPT ![w] = AcquiredBy(pc[w]).next]
    /\ loc' = [loc EXCEPT ![w].held = Append(@, AcquiredBy(pc[w]).binding)]
    /\ UNCHANGED <<db, cache, now, uuid, call, rows, agg>>

\* acquire_connection: the pool gives an error (no connection within the
\* timeout, the database unreachable)
PoolAcquireFail(w) ==
    /\ pc[w] \in AcquireSteps
    /\ PoolReturn(w, Err(ConnectionError), "acquire")
    /\ UNCHANGED <<db, cache, now, uuid, rows, agg>>

\* the connection of the last binding was given to a repository function,
\* which has returned
Dropped(held) == SubSeq(held, 1, Len(held) - 1)

\* get_payment_by_id: find_by_id, which takes the connection by value
PoolGetFind(w) ==
    /\ pc[w] = "get_find"
    /\ \E r \in find_by_id(db, ConcId) :
          IF r.ok
          THEN /\ pc' = [pc EXCEPT ![w] = "get_store"]
               /\ loc' = [loc EXCEPT ![w] =
                             [field \in DOMAIN loc[w] \cup {"payment"} |->
                                 IF field = "payment" THEN r.val
                                 ELSE IF field = "held" THEN Dropped(loc[w].held)
                                 ELSE loc[w][field]]]
               /\ UNCHANGED call
          ELSE PoolReturn(w, Err(NotFoundOrConvert(r.err, ConcId)), StoreFailure(r.err))
    /\ UNCHANGED <<db, cache, now, uuid, rows, agg>>

\* get_payment_by_id: the payment read is cached
PoolGetStore(w) ==
    /\ pc[w] = "get_store"
    /\ cache' = cache_payment(cache, ConcId, loc[w].payment, TTL_SECONDS, now)
    /\ PoolAfterGet(w, loc[w].payment)
    /\ UNCHANGED <<db, now, uuid, rows, agg>>

\* delete_payment: delete, which takes the connection by value
PoolDeleteTx(w, fault) ==
    /\ pc[w] = "delete_tx"
    /\ LET o == delete_faulted(db, ConcId, fault)
       IN /\ db' = o.db
          /\ IF o.res.ok
             THEN /\ pc' = [pc EXCEPT ![w] = "delete_uncache"]
                  /\ loc' = [loc EXCEPT ![w].held = Dropped(@)]
                  /\ UNCHANGED call
             ELSE PoolReturn(w, Err(convert_sqlx_error(o.res.err)), StoreFailure(o.res.err))
    /\ UNCHANGED <<cache, now, uuid, rows, agg>>

\* delete_payment: the entry is removed from the cache
PoolDeleteUncache(w) ==
    /\ pc[w] = "delete_uncache"
    /\ cache' = remove_from_cache(cache, ConcId)
    /\ PoolReturn(w, Ok(Unit), "none")
    /\ UNCHANGED <<db, now, uuid, rows, agg>>

\* add_installment: the repository's add_installment, which borrows the
\* connection; then get_payment_by_id once more
PoolAddInsert(w) ==
    /\ pc[w] = "add_insert"
    /\ LET o == add_installment(db, [id |-> loc[w].inst_id, payment_id |-> ConcId,
                                     amount |-> loc[w].amount,
                                     payment_date |-> loc[w].payment_date])
       IN /\ db' = o.db
          /\ IF o.res.ok
             THEN /\ pc' = [pc EXCEPT ![w] = "get_cache"]
                  /\ loc' = [loc EXCEPT ![w].phase = "reread"]
                  /\ UNCHANGED call
             ELSE PoolReturn(w, Err(convert_sqlx_error(o.res.err)), StoreFailure(o.res.err))
    /\ UNCHANGED <<cache, now, uuid, rows, agg>>

\* PaymentService::get_payment_by_id (the service of the HTTP controller),
\* the whole call: a connection of the pool, find_by_id of
\* PembayaranRepository, its error as NotFound or DatabaseError
naive_get_payment_by_id(d, id, acquired) ==
    IF ~acquired
    THEN {[res |-> Err([kind |-> "DatabaseError"]), failure |-> "acquire"]}
    ELSE {IF r.ok THEN [res |-> r, failure |-> "none"]
          ELSE IF r.err = RowNotFound
          THEN [res |-> Err([kind |-> "NotFound"]), failure |-> "row_absent"]
          ELSE [res |-> Err([kind |-> "DatabaseError"]), failure |-> "store"]
          : r \in load_payment_with_installments(d, id)}

\* the pool gives a connection if it has one, or an error
NaiveGetPaymentById(acquired) ==
    /\ acquired => IdleConnections > 0
    /\ \E o \in naive_get_payment_by_id(db, ConcId, acquired) :
          call' = [op |-> "naive_get_payment_by_id", id |-> ConcId,
                   res |-> o.res, failure |-> o.failure]
    /\ UNCHANGED <<db, cache, now, uuid, rows, agg, pc, loc>>

\* clear_cache, called by anyone
PoolClearCache ==
    /\ cache # EmptyMap
    /\ cache' = clear_cache(cache)
    /\ UNCHANGED <<db, now, uuid, call, rows, agg, pc, loc>>

PoolTick ==
    /\ now < MaxTicks * TTL_SECONDS
    /\ now' = now + TTL_SECONDS
    /\ UNCHANGED <<db, cache, uuid, call, rows, agg, pc, loc>>

NextPool ==
    \/ \E w \in Workers : PoolStartGet(w)
    \/ \E w \in Workers : PoolStartDelete(w)
    \/ \E w \in Workers, amount \in PoolAmounts : PoolStartAdd(w, amount)
    \/ \E w \in Workers : PoolGetCache(w)
    \/ \E w \in Workers : PoolGetRemove(w)
    \/ \E w \in Workers : PoolAcquire(w)
    \/ \E w \in Workers : PoolAcquireFail(w)
    \/ \E w \in Workers : PoolGetFind(w)
    \/ \E w \in Workers : PoolGetStore(w)
    \/ \E w \in Workers, fault \in DeleteFaults : PoolDeleteTx(w, fault)
    \/ \E w \in Workers : PoolDeleteUncache(w)
    \/ \E w \in Workers : PoolAddInsert(w)
    \/ \E acquired \in BOOLEAN : NaiveGetPaymentById(acquired)
    \/ PoolClearCache
    \/ PoolTick

SpecPool == InitPool /\ [][NextPool]_vars

\* C25 as stated: a service call in flight holds at most one connection of
\* the pool at every moment, and once it has returned, with success or with
\* any error, it holds none.
C25_OneConnectionPerCall ==
    \A w \in Workers :
        /\ Len(loc[w].held) <= 1
        /\ pc[w] = "idle" => loc[w].held = <<>>

\* what the calls hold: get_payment_by_id and delete_payment at most one
\* connection at a time, add_installment its own and, when its second read
\* misses the cache, the one of that read; none after the return
ConnectionsHeldByCalls ==
    \A w \in Workers :
        /\ loc[w].op # "add_installment" => Len(loc[w].held) <= 1
        /\ Len(loc[w].held) = 2 =>
              /\ loc[w].held = <<"add_installment.conn", "get_payment_by_id.conn">>
              /\ pc[w] = "get_find"
        /\ Len(loc[w].held) <= 2
        /\ pc[w] = "idle" => loc[w].held = <<>>

\* an add_installment, its installment stored and its connection still
\* checked out, waits for a second connection of a pool that has none left
AddInstallmentWaitsOnItself ==
    \E w \in Workers :
        /\ loc[w].op = "add_installment"
        /\ pc[w] = "get_acquire"
        /\ loc[w].held = <<"add_installment.conn">>
        /\ IdleConnections = 0

-----------------------------------------------------------------------------
(* Installment dates in none of the accepted formats *)

\* a row of rs has non-null installment columns and a payment_date that
\* parse_datetime does not accept
HasUnparsableInstallmentDate(rs) ==
    \E k \in DOMAIN rs :
        /\ rs[k].inst_id # None
        /\ ~parse_datetime(rs[k].inst_date[1]).ok

\* C26 as stated: when a row read by find_by_id or find_all carries non-null
\* installment columns whose payment_date matches none of the three accepted
\* formats, the read fails with an error: it never succeeds with that
\* installment left out of the payment.
C26_UnparsableDateFailsRead ==
    HasUnparsableInstallmentDate(rows) =>
        /\ agg # None => ~agg[1].ok
        /\ call.op = "parse_joined_rows_to_payment" => ~call.res.ok

\* what the reads do: they succeed, and the payment holds the installments
\* of the rows whose payment_date parses, in row order, and no other
ReadsSkipUnparsableDates ==
    call.op = "parse_joined_rows_to_payment" =>
        /\ call.res.ok
        /\ call.res.val.installments
              = InstallmentsOfRows(SelectSeq(rows,
                    LAMBDA r : r.inst_id # None /\ parse_datetime(r.inst_date[1]).ok))

-----------------------------------------------------------------------------
(* The error kind of a failed call *)

\* the kind the failure of call c asks for
KindOfFailure(c) ==
    /\ c.failure = "acquire" => ~c.res.ok /\ c.res.err.kind = "ConnectionError"
    /\ c.failure = "row_absent" => ~c.res.ok /\ c.res.err.kind = "NotFound"
    /\ c.failure = "store" => ~c.res.ok /\ c.res.err.kind = "DatabaseError"
    /\ c.res.ok => c.failure = "none"

\* C27 as stated: for every service operation the error kind is determined
\* by the failure: no connection from the pool gives ConnectionError, a row
\* absent from the store NotFound, every other store failure DatabaseError;
\* no call returns success when one of its store steps failed.
C27_ErrorKindOfFailure ==
    call.op # "none" => KindOfFailure(call)

\* the same of OptimizedPaymentService alone
OptimizedErrorKindOfFailure ==
    call.op \in {"get_payment_by_id", "delete_payment", "add_installment"} =>
        KindOfFailure(call)

\* failures of each kind have been returned by OptimizedPaymentService
OptimizedFailuresSeen ==
    /\ call.op = "add_installment"
    /\ call.failure = "store"
    /\ call.res = Err(DatabaseError)

-----------------------------------------------------------------------------
(* The lock of the cache map.  result_cache is an RwLock<HashMap>; tasks   *)
(* call get_cached_payment, cache_payment, remove_from_cache and           *)
(* clear_cache on one id.  A call waits for its guard ("lock"), works on   *)
(* the map while it holds the guard and drops the guard when it returns.   *)
(* An insert writes the entry in two steps: between them the slot of the   *)
(* map holds a partially written entry.                                    *)

LockTasks == {"t1", "t2", "t3"}
LockOps == {"get_cached_payment", "cache_payment", "remove_from_cache", "clear_cache"}
LockPayments == {SvcPayment(ConcId, 100, "Paid"), SvcPayment(ConcId, 200, "Installment")}

\* the slot of an entry that is being written
Torn == [torn |-> TRUE]

\* the steps at which a task holds the read guard, and the write guard
ReadSteps == {"read", "read_done"}
WriteSteps == {"insert", "insert_end", "remove", "clear", "write_done"}

Readers == {t \in LockTasks : pc[t] \in ReadSteps}
Writers == {t \in LockTasks : pc[t] \in WriteSteps}

\* a faulty variant: the write guard is given while readers hold the map
MayAcquireAmongReaders(op, readers, writers) == writers = {}

\* RwLock: read() is given while no task holds the write guard, write()
\* while no task holds any guard
MayAcquire(op, readers, writers) ==
    IF op = "get_cached_payment" THEN writers = {}
    ELSE writers = {} /\ readers = {}

FirstStep(op) ==
    CASE op = "get_cached_payment" -> "read"
      [] op = "cache_payment" -> "insert"
      [] op = "remove_from_cache" -> "remove"
      [] op = "clear_cache" -> "clear"

LockIdle(n) == [op |-> "none", n |-> n]

InitLock ==
    /\ db = EmptyDb
    /\ cache = EmptyMap
    /\ now = 0
    /\ uuid = 0
    /\ call = NoCall
    /\ rows = <<>>
    /\ agg = None
    /\ pc = [t \in LockTasks |-> "idle"]
    /\ loc = [t \in LockTasks |-> LockIdle(0)]

\* task t calls op; payment is what cache_payment is given
LockStart(t, op, payment) ==
    /\ pc[t] = "idle" /\ loc[t].n < MaxCalls
    /\ pc' = [pc EXCEPT ![t] = "lock"]
    /\ loc' = [loc EXCEPT ![t] = [op |-> op, n |-> loc[t].n + 1,
                                  payment |-> payment, res |-> None]]
    /\ UNCHANGED <<db, cache, now, uuid, call, rows, agg>>

\* result_cache.read().await / result_cache.write().await returns the guard
LockAcquire(t) ==
    /\ pc[t] = "lock"
    /\ MayAcquire(loc[t].op, Readers, Writers)
    /\ pc' = [pc EXCEPT ![t] = FirstStep(loc[t].op)]
    /\ UNCHANGED <<db, cache, now, uuid, call, rows, agg, loc>>

\* get_cached_payment: cache.get(id).cloned()
LockRead(t) ==
    /\ pc[t] = "read"
    /\ loc' = [loc EXCEPT ![t].res = get_cached_payment(cache, ConcId)]
    /\ pc' = [pc EXCEPT ![t] = "read_done"]
    /\ UNCHANGED <<db, cache, now, uuid, call, rows, agg>>

\* cache_payment: cache.insert, the entry half written
LockInsertBegin(t) ==
    /\ pc[t] = "insert"
    /\ cache' = [k \in DOMAIN cache \cup {ConcId} |->
                    IF k = ConcId THEN Torn ELSE cache[k]]
    /\ pc' = [pc EXCEPT ![t] = "insert_end"]
    /\ UNCHANGED <<db, now, uuid, call, rows, agg, loc>>

\* cache_payment: cache.insert, the entry written
LockInsertEnd(t) ==
    /\ pc[t] = "insert_end"
    /\ cache' = cache_payment(cache, ConcId, loc[t].payment[1], TTL_SECONDS, now)
    /\ pc' = [pc EXCEPT ![t] = "write_done"]
    /\ UNCHANGED <<db, now, uuid, call, rows, agg, loc>>

\* remove_from_cache: cache.remove(id)
LockRemove(t) ==
    /\ pc[t] = "remove"
    /\ cache' = remove_from_cache(cache, ConcId)
    /\ pc' = [pc EXCEPT ![t] = "write_done"]
    /\ UNCHANGED <<db, now, uuid, call, rows, agg, loc>>

\* clear_cache: cache.clear()
LockClear(t) ==
    /\ pc[t] = "clear"
    /\ cache' = clear_cache(cache)
    /\ pc' = [pc EXCEPT ![t] = "write_done"]
    /\ UNCHANGED <<db, now, uuid, call, rows, agg, loc>>

\* the call returns and its guard is dropped; with is who else held the map
LockRelease(t) ==
    /\ pc[t] \in {"read_done", "write_done"}
    /\ pc' = [pc EXCEPT ![t] = "idle"]
    /\ loc' = [loc EXCEPT ![t] = LockIdle(loc[t].n)]
    /\ call' = [op |-> loc[t].op, task |-> t, res |-> loc[t].res,
                with |-> (Readers \cup Writers) \ {t}]
    /\ UNCHANGED <<db, cache, now, uuid, rows, agg>>

LockTick ==
    /\ now < MaxTicks
    /\ now' = now + 1
    /\ UNCHANGED <<db, cache, uuid, call, rows, agg, pc, loc>>

NextLock ==
    \/ \E t \in LockTasks, op \in LockOps \ {"cache_payment"} :
          LockStart(t, op, None)
    \/ \E t \in LockTasks, payment \in LockPayments :
          LockStart(t, "cache_payment", Some(payment))
    \/ \E t \in LockTasks : LockAcquire(t)
    \/ \E t \in LockTasks : LockRead(t)
    \/ \E t \in LockTasks : LockInsertBegin(t)
    \/ \E t \in LockTasks : LockInsertEnd(t)
    \/ \E t \in LockTasks : LockRemove(t)
    \/ \E t \in LockTasks : LockClear(t)
    \/ \E t \in LockTasks : LockRelease(t)
    \/ LockTick

SpecLock == InitLock /\ [][NextLock]_vars

\* entry is an entry as cache_payment builds it, of one of the payments
\* given to cache_payment
IsWholeEntry(entry) ==
    \E payment \in LockPayments, t \in 0..now :
        entry = CachedPayment(payment, TTL_SECONDS, t)

\* C28: no writer (cache_payment, remove_from_cache, clear_cache) holds the
\* map together with another writer or with a reader (get_cached_payment);
\* and what a reader has read for the id is no entry or a whole entry, never
\* a partially written one.
C28_LockDiscipline ==
    /\ Cardinality(Writers) <= 1
    /\ Writers # {} => Readers = {}
    /\ \A t \in LockTasks :
          pc[t] = "read_done" =>
              loc[t].res = None \/ IsWholeEntry(loc[t].res[1])
    /\ call.op = "get_cached_payment" =>
          call.res = None \/ IsWholeEntry(call.res[1])

\* two readers hold the map together, one has read the entry of a second
\* insert, and a writer waits for them
C28_Witness ==
    /\ Cardinality(Readers) = 2
    /\ \E t \in Readers :
          /\ pc[t] = "read_done"
          /\ loc[t].res # None
          /\ loc[t].res[1].cached_at > 0
    /\ \E t \in LockTasks : pc[t] = "lock" /\ loc[t].op = "cache_payment"

-----------------------------------------------------------------------------
(* Parsing method and status texts.  A text is the sequence of its         *)
(* characters, a character a one-letter string; "long_s" and "dotless_i"   *)
(* are U+017F and U+0131, the lower-case letters outside ASCII whose upper *)
(* case is an ASCII letter.                                                *)

\* <<lower-case form, upper-case letter>> of the letters the model uses
CasePairs ==
    {<<"a", "A">>, <<"b", "B">>, <<"c", "C">>, <<"d", "D">>, <<"e", "E">>, <<"f", "F">>, <<"h", "H">>,
     <<"i", "I">>, <<"k", "K">>, <<"l", "L">>, <<"n", "N">>, <<"r", "R">>,
     <<"s", "S">>, <<"t", "T">>, <<"u", "U">>, <<"w", "W">>, <<"x", "X">>, <<"v", "V">>,
     <<"long_s", "S">>, <<"dotless_i", "I">>}

\* char::to_uppercase: a character that has no upper case is itself
char_to_uppercase(c) ==
    IF \E pair \in CasePairs : pair[1] = c
    THEN (CHOOSE pair \in CasePairs : pair[1] = c)[2]
    ELSE c

\* a faulty variant: the text is looked up as it was given
str_as_given(text) == text

\* str::to_uppercase, character by character
str_to_uppercase(text) == [k \in DOMAIN text |-> char_to_uppercase(text[k])]

\* the characters of the keys of method_cache and status_cache
Spell ==
    ("CASH" :> <<"C", "A", "S", "H">>)
    @@ ("CREDIT_CARD" :> <<"C", "R", "E", "D", "I", "T", "_", "C", "A", "R", "D">>)
    @@ ("BANK_TRANSFER" :> <<"B", "A", "N", "K", "_", "T", "R", "A", "N", "S", "F", "E", "R">>)
    @@ ("E_WALLET" :> <<"E", "_", "W", "A", "L", "L", "E", "T">>)
    @@ ("LUNAS" :> <<"L", "U", "N", "A", "S">>)
    @@ ("CICILAN" :> <<"C", "I", "C", "I", "L", "A", "N">>)

\* the values method_cache and status_cache hold (OptimizedPaymentService::new)
MethodCacheValue ==
    ("CASH" :> "Cash") @@ ("CREDIT_CARD" :> "CreditCard")
    @@ ("BANK_TRANSFER" :> "BankTransfer") @@ ("E_WALLET" :> "EWallet")
StatusCacheValue == ("LUNAS" :> "Paid") @@ ("CICILAN" :> "Installment")

\* cache.get(&text.to_uppercase()).copied().ok_or_else(InvalidInput{field})
CachedParse(keys, values, text, field) ==
    LET upper == str_to_uppercase(text)
        found == {key \in keys : Spell[key] = upper}
    IN IF found = {} THEN Err(InvalidInput(field))
       ELSE Ok(values[CHOOSE key \in found : TRUE])

\* OptimizedPaymentService::parse_payment_method
svc_parse_payment_method(method) ==
    CachedParse(method_cache, MethodCacheValue, method, "payment_method")

\* OptimizedPaymentService::parse_payment_status
svc_parse_payment_status(status) ==
    CachedParse(status_cache, StatusCacheValue, status, "payment_status")

\* PaymentService::parse_payment_method: match on the upper-cased text
naive_parse_payment_method(method_str) ==
    LET upper == str_to_uppercase(method_str)
    IN CASE upper = Spell["CASH"] -> Ok("Cash")
         [] upper = Spell["CREDIT_CARD"] -> Ok("CreditCard")
         [] upper = Spell["BANK_TRANSFER"] -> Ok("BankTransfer")
         [] upper = Spell["E_WALLET"] -> Ok("EWallet")
         [] OTHER -> Err([kind |-> "InvalidInput"])

\* the forms of a character in either case
CaseForms(c) == {c} \cup {pair[1] : pair \in {q \in CasePairs : q[2] = c}}

RECURSIVE CaseVariants(_)
\* every text that is word with each letter in one of its forms
CaseVariants(word) ==
    IF word = <<>> THEN {<<>>}
    ELSE {<<c>> \o rest : c \in CaseForms(Head(word)), rest \in CaseVariants(Tail(word))}

\* texts that are no variant of a key: empty, another word, a key with a
\* space before or after it, a key cut short or extended, a key with its
\* underscore left out or replaced, the name of the enum variant
OtherTexts ==
    {<<>>, <<"I", "N", "V", "A", "L", "I", "D">>, <<" ">>,
     Spell["CASH"] \o <<" ">>, <<" ">> \o Spell["LUNAS"],
     <<"C", "A", "S">>, Spell["CASH"] \o <<"H">>,
     <<"l", "u", "n", "a">>, Spell["LUNAS"] \o <<"s">>,
     <<"E", "W", "A", "L", "L", "E", "T">>, <<"E", " ", "W", "A", "L", "L", "E", "T">>, <<"P", "A", "I", "D">>, <<"c", "a", "s", "X">>}

ParseInputs ==
    UNION {CaseVariants(Spell[key]) : key \in method_cache \cup status_cache}
    \cup OtherTexts

InitParse ==
    /\ db = EmptyDb
    /\ cache = EmptyMap
    /\ now = 0
    /\ uuid = 0
    /\ call \in {[op |-> "text", arg |-> text] : text \in ParseInputs}
    /\ rows = <<>>
    /\ agg = None
    /\ pc = EmptyMap
    /\ loc = EmptyMap

Parse ==
    /\ call.op = "text"
    /\ call' = [op |-> "parse", arg |-> call.arg,
                method |-> svc_parse_payment_method(call.arg),
                status |-> svc_parse_payment_status(call.arg),
                naive_method |-> naive_parse_payment_method(call.arg)]
    /\ UNCHANGED <<db, cache, now, uuid, rows, agg, pc, loc>>

NextParse == Parse

SpecParse == InitParse /\ [][NextParse]_vars

\* text is word with some of its letters in lower case
IsCaseVariant(text, word) ==
    /\ Len(text) = Len(word)
    /\ \A k \in DOMAIN word : text[k] \in CaseForms(word[k])

\* res is what a parse of text over the keys has to give
ParsedAs(res, text, values, field) ==
    /\ \A key \in DOMAIN values :
          IsCaseVariant(text, Spell[key]) => res = Ok(values[key])
    /\ (\A key \in DOMAIN values : ~IsCaseVariant(text, Spell[key])) =>
          /\ ~res.ok
          /\ res.err.kind = "InvalidInput"
          /\ "field" \in DOMAIN res.err => res.err.field = field

-----------------------------------------------------------------------------
(* The state of a sales transaction (transaksi_penjualan): a state object  *)
(* is the record of what its methods return; next_state gives the state    *)
(* object an action leads to, or an error.                                 *)

MaxActions == 4     \* how many actions are applied to one transaction

StateActions == {"Complete", "Cancel", "Reopen"}

MasihDiprosesState ==
    [status |-> "MasihDiproses",
     can_be_modified |-> TRUE, can_be_cancelled |-> TRUE,
     can_be_completed |-> TRUE, can_add_items |-> TRUE,
     can_update_items |-> TRUE, can_delete_items |-> TRUE]

SelesaiState ==
    [status |-> "Selesai",
     can_be_modified |-> FALSE, can_be_cancelled |-> FALSE,
     can_be_completed |-> FALSE, can_add_items |-> FALSE,
     can_update_items |-> FALSE, can_delete_items |-> FALSE]

DibatalkanState ==
    [status |-> "Dibatalkan",
     can_be_modified |-> FALSE, can_be_cancelled |-> FALSE,
     can_be_completed |-> FALSE, can_add_items |-> FALSE,
     can_update_items |-> FALSE, can_delete_items |-> FALSE]

\* TransaksiStateFactory::create_state
create_state(status) ==
    CASE status = "MasihDiproses" -> MasihDiprosesState
      [] status = "Selesai" -> SelesaiState
      [] status = "Dibatalkan" -> DibatalkanState

StatusTransaksi == {"MasihDiproses", "Selesai", "Dibatalkan"}

\* a faulty variant: a completed transaction can be cancelled
next_state_cancels_completed(state, action) ==
    CASE state = MasihDiprosesState ->
            (CASE action = "Complete" -> Ok(SelesaiState)
               [] action = "Cancel" -> Ok(DibatalkanState)
               [] action = "Reopen" -> Err("Transaksi sudah dalam status diproses"))
      [] state = SelesaiState ->
            (CASE action = "Reopen" -> Ok(MasihDiprosesState)
               [] action = "Cancel" -> Ok(DibatalkanState)
               [] OTHER -> Err("Transaksi selesai tidak dapat diubah statusnya"))
      [] state = DibatalkanState ->
            (CASE action = "Reopen" -> Ok(MasihDiprosesState)
               [] OTHER -> Err("Transaksi dibatalkan tidak dapat diubah statusnya"))

\* TransaksiState::next_state of the three state objects
next_state(state, action) ==
    CASE state = MasihDiprosesState ->
            (CASE action = "Complete" -> Ok(SelesaiState)
               [] action = "Cancel" -> Ok(DibatalkanState)
               [] action = "Reopen" -> Err("Transaksi sudah dalam status diproses"))
      [] state = SelesaiState ->
            (CASE action = "Reopen" -> Ok(MasihDiprosesState)
               [] OTHER -> Err("Transaksi selesai tidak dapat diubah statusnya"))
      [] state = DibatalkanState ->
            (CASE action = "Reopen" -> Ok(MasihDiprosesState)
               [] OTHER -> Err("Transaksi dibatalkan tidak dapat diubah statusnya"))

\* loc.current_state is the state object of the transaction, loc.history
\* the actions applied to it so far
InitTransaksi ==
    /\ db = EmptyDb
    /\ cache = EmptyMap
    /\ now = 0
    /\ uuid = 0
    /\ call = [op |-> "none"]
    /\ rows = <<>>
    /\ agg = None
    /\ pc = EmptyMap
    /\ loc \in {[current_state |-> create_state(status), history |-> <<>>]
                  : status \in StatusTransaksi}

\* an action is applied through next_state: the transaction takes the state
\* object returned, and keeps the one it has when next_state gives an error
ApplyAction(action) ==
    /\ Len(loc.history) < MaxActions
    /\ LET res == next_state(loc.current_state, action)
       IN /\ call' = [op |-> "next_state", from |-> loc.current_state.status,
                      action |-> action, res |-> res]
          /\ loc' = [current_state |-> IF res.ok THEN res.val ELSE loc.current_state,
                     history |-> Append(loc.history, action)]
    /\ UNCHANGED <<db, cache, now, uuid, rows, agg, pc>>

NextTransaksi == \E action \in StateActions : ApplyAction(action)

SpecTransaksi == InitTransaksi /\ [][NextTransaksi]_vars

\* the transitions of the state machine: <<from, action, to>>
TransaksiTransitions ==
    {<<"MasihDiproses", "Complete", "Selesai">>,
     <<"MasihDiproses", "Cancel", "Dibatalkan">>,
     <<"Selesai", "Reopen", "MasihDiproses">>,
     <<"Dibatalkan", "Reopen", "MasihDiproses">>}

\* the four permissions are those of a transaction in progress
PermissionsOfStatus ==
    LET in_progress == (loc.current_state.status = "MasihDiproses")
    IN /\ loc.current_state.can_be_modified = in_progress
       /\ loc.current_state.can_be_cancelled = in_progress
       /\ loc.current_state.can_be_completed = in_progress
       /\ loc.current_state.can_add_items = in_progress

\* a step applies an action as the transitions say
StepFollowsTransitions ==
    LET from == loc.current_state.status
        to == loc'.current_state.status
    IN IF \E tr \in TransaksiTransitions : tr[1] = from /\ tr[2] = call'.action
       THEN /\ call'.res.ok
            /\ <<from, call'.action, to>> \in TransaksiTransitions
            /\ call'.res.val = loc'.current_state
       ELSE /\ ~call'.res.ok
            /\ loc'.current_state = loc.current_state

\* C30: for any sequence of Complete, Cancel and Reopen applied through
\* next_state from any status, the only transitions taken are MasihDiproses
\* to Selesai on Complete, MasihDiproses to Dibatalkan on Cancel, and Selesai
\* or Dibatalkan to MasihDiproses on Reopen; every other pair of state and
\* action gives an error and leaves the state as it was; and in every
\* reachable state can_be_modified, can_be_cancelled, can_be_completed and
\* can_add_items are true exactly when the status is MasihDiproses.
C30_TransaksiStateMachine ==
    /\ []PermissionsOfStatus
    /\ [][StepFollowsTransitions]_vars

\* complete, reopen, cancel, and then a complete that was refused
C30_Witness ==
    /\ loc.history = <<"Complete", "Reopen", "Cancel", "Complete">>
    /\ loc.current_state.status = "Dibatalkan"
    /\ call.from = "Dibatalkan"
    /\ ~call.res.ok

-----------------------------------------------------------------------------
(* add_installment among other calls on the same payment.  A worker runs   *)
(* add_installment step by step (the steps of the pooled-connection        *)
(* model); between any two of its steps another caller runs a whole        *)
(* update_payment_status, update_payment or get_payment_by_id.             *)

RaceStatusInputs == PaymentStatuses
RaceUpdateInputs == {SvcPayment(ConcId, 200, "Paid")}

NextAddRace ==
    \/ \E w \in Workers, amount \in PoolAmounts : PoolStartAdd(w, amount)
    \/ \E w \in Workers : PoolGetCache(w)
    \/ \E w \in Workers : PoolGetRemove(w)
    \/ \E w \in Workers : PoolAcquire(w)
    \/ \E w \in Workers : PoolAcquireFail(w)
    \/ \E w \in Workers : PoolGetFind(w)
    \/ \E w \in Workers : PoolGetStore(w)
    \/ \E w \in Workers : PoolAddInsert(w)
    \/ \E st \in RaceStatusInputs : UpdatePaymentStatus(ConcId, st, None)
    \/ \E payment \in RaceUpdateInputs : UpdatePayment(payment)
    \/ GetPaymentById(ConcId)
    \/ PoolTick

SpecAddRace == InitPool /\ [][NextAddRace]_vars

\* this step is the insert of an add_installment
AddInstallmentInserts ==
    \E w \in Workers :
        /\ pc[w] = "add_insert"
        /\ pc'[w] # "add_insert"
        /\ db'.installments # db.installments

\* C31 as stated: under every interleaving of add_installment with
\* update_payment_status, update_payment or get_payment_by_id calls on the
\* same id, no installment is inserted by add_installment while the stored
\* status of the payment is Paid.
C31_NoInsertWhilePaid ==
    [][AddInstallmentInserts => ~PaidStored(db, ConcId)]_vars

\* what the check of add_installment guarantees: the payment had status
\* Installment in the store or in the cache at some moment before the insert;
\* the insert itself only needs the payment row to exist
InsertNeedsOnlyTheRow ==
    [][AddInstallmentInserts => HasPayment(db, ConcId)]_vars

-----------------------------------------------------------------------------
(* Stored payments by installments and their installments *)

\* the payment row has status Installment and no installment row
InstallmentStatusWithoutInstallments(d, row) ==
    /\ row.status = StatusToString("Installment")
    /\ \A i \in d.installments : i.payment_id # row.id

\* C32 as stated: after any sequence of service calls starting from an empty
\* store, every stored payment whose status is Installment has at least one
\* stored installment.
C32_InstallmentStatusHasInstallments ==
    \A row \in db.payments : ~InstallmentStatusWithoutInstallments(db, row)

\* what validate_payment gives: a payment that create_payment has stored
\* with status Installment has an installment stored with it
CreatedInstallmentStatusHasInstallments ==
    (call.op = "create_payment" /\ call.res.ok) =>
        \A row \in db.payments :
            row.id = call.id => ~InstallmentStatusWithoutInstallments(db, row)

-----------------------------------------------------------------------------
(* Installments and the payment they belong to *)

ParentStatusInputs == {"Installment"}
ParentAmounts == {Some(50)}
Adder == "w1"
Deleter == "w2"

\* add_installment of one caller and delete_payment of another step by step
\* on one id, among whole update_payment_status calls that bring an
\* additional amount for that id
NextParent ==
    \/ PoolStartDelete(Deleter)
    \/ \E amount \in PoolAmounts : PoolStartAdd(Adder, amount)
    \/ \E w \in Workers : PoolGetCache(w)
    \/ \E w \in Workers : PoolGetRemove(w)
    \/ \E w \in Workers : PoolAcquire(w)
    \/ \E w \in Workers : PoolAcquireFail(w)
    \/ \E w \in Workers : PoolGetFind(w)
    \/ \E w \in Workers : PoolGetStore(w)
    \/ \E fault \in DeleteFaults : PoolDeleteTx(Deleter, fault)
    \/ PoolDeleteUncache(Deleter)
    \/ PoolAddInsert(Adder)
    \/ \E st \in ParentStatusInputs, amount \in ParentAmounts :
           UpdatePaymentStatus(ConcId, st, amount)
    \/ PoolTick

SpecParent == InitPool /\ [][NextParent]_vars

\* C33 as stated: in every reachable state of the store, the payment_id of
\* every installment row is the id of an existing payment row, whatever the
\* calls and their interleaving.
C33_InstallmentsHaveParent ==
    \A i \in db.installments : HasPayment(db, i.payment_id)

\* an add_installment whose insert came after the delete_payment of another
\* call: the store refused it and the payment is gone
C33_Witness ==
    /\ call.op = "add_installment"
    /\ call.failure = "store"
    /\ ~HasPayment(db, ConcId)

\* update_payment_status with an additional amount on an id the store does
\* not have is an error and leaves no installment
StatusWithAmountOnAbsentId ==
    /\ call.op = "update_payment_status"
    /\ call.amount = Some(50)
    /\ ~call.res.ok
    /\ ~HasPayment(db, ConcId)

-----------------------------------------------------------------------------
(* Stored amounts *)

\* amounts a caller gives: positive, zero and negative
CallerAmounts == {100, 0, -50}
CallerInstallmentAmounts == {50, 0, -50}

\* a payment by installments whose one installment has the given amount
PaymentWithInstallment(pid, amount, installment_amount) ==
    [SvcPayment(pid, amount, "Installment") EXCEPT
        !.installments = <<Inst("INST-A", pid, installment_amount, DT(0, 0))>>]

AmountPayments ==
    {SvcPayment("PMT-1", a, "Paid") : a \in CallerAmounts \cup {200}}
    \cup {PaymentWithInstallment("PMT-1", a, ia) :
              a \in CallerAmounts, ia \in CallerInstallmentAmounts}

AmountsGivenToStatus == {None} \cup {Some(a) : a \in CallerInstallmentAmounts}

NextAmounts ==
    \/ \E payment \in AmountPayments : CreatePayment(payment, "none")
    \/ \E payment \in AmountPayments : UpdatePayment(payment)
    \/ \E st \in PaymentStatuses, amt \in AmountsGivenToStatus :
          UpdatePaymentStatus("PMT-1", st, amt)
    \/ \E amount \in CallerInstallmentAmounts : AddInstallment("PMT-1", amount)
    \/ DeletePayment("PMT-1")
    \/ Tick

SpecAmounts == Init /\ [][NextAmounts]_vars

\* every stored payment and every stored installment has a positive amount
StoredAmountsPositive(d) ==
    /\ \A row \in d.payments : row.amount > 0
    /\ \A row \in d.installments : row.amount > 0

\* the call was given a payment amount or an installment amount <= 0
GivenNonPositiveAmount(c) ==
    CASE c.op \in {"create_payment", "update_payment"} ->
            \/ c.arg.amount <= 0
            \/ \E installment \in Range(c.arg.installments) : installment.amount <= 0
      [] c.op = "update_payment_status" -> c.amount # None /\ c.amount[1] <= 0
      [] c.op = "add_installment" -> c.amount <= 0
      [] OTHER -> FALSE

\* this step is a call given a non-positive amount: it returns an error and
\* writes no row
NonPositiveAmountRejected ==
    (now' = now /\ GivenNonPositiveAmount(call')) => (~call'.res.ok /\ db' = db)

\* C34 as stated: after any sequence of service calls from the empty store,
\* every stored payment row and every stored installment row has amount > 0;
\* create_payment, update_payment, update_payment_status and add_installment
\* reject a non-positive payment or installment amount and write no row.
C34_StoredAmountsPositive ==
    []StoredAmountsPositive(db) /\ [][NonPositiveAmountRejected]_vars

\* update_payment has refused a payment whose installment has amount 0,
\* and the stored payment and installment are as they were
C34_Witness ==
    /\ call.op = "update_payment"
    /\ call.arg.amount > 0
    /\ \E installment \in Range(call.arg.installments) : installment.amount = 0
    /\ ~call.res.ok
    /\ HasPayment(db, "PMT-1")
    /\ db.installments # {}

-----------------------------------------------------------------------------
(* Writes that fail *)

\* where a write may fail once its statements have run: nowhere, at the
\* COMMIT, at the re-read after the COMMIT
WriteFaults == {"none", "commit", "reread"}

FaultedPayments ==
    {SvcPayment("PMT-1", a, st) : a \in {100, 200}, st \in PaymentStatuses}

CreatePaymentFaulted(payment, fault) ==
    \E o \in create_payment(db, cache, now, payment, fault) :
        /\ db' = o.db
        /\ cache' = o.cache
        /\ call' = [op |-> "create_payment", id |-> payment.id, arg |-> payment,
                    fault |-> fault, res |-> o.res]
        /\ UNCHANGED <<now, uuid, rows, agg, pc, loc>>

UpdatePaymentFaulted(payment, fault) ==
    \E o \in update_payment_faulted(db, cache, now, payment, fault) :
        /\ db' = o.db
        /\ cache' = o.cache
        /\ call' = [op |-> "update_payment", id |-> payment.id, arg |-> payment,
                    fault |-> fault, res |-> o.res]
        /\ UNCHANGED <<now, uuid, rows, agg, pc, loc>>

UpdatePaymentStatusFaulted(payment_id, new_status, additional_amount, fault) ==
    /\ additional_amount # None => uuid < MaxUuid
    /\ \E o \in svc_update_payment_status_faulted(db, cache, now, payment_id,
                      new_status, additional_amount, UuidInstId(uuid), fault) :
        /\ db' = o.db
        /\ cache' = o.cache
        /\ uuid' = UuidAfter(o.db)
        /\ call' = [op |-> "update_payment_status", id |-> payment_id,
                    status |-> new_status, amount |-> additional_amount,
                    fault |-> fault, res |-> o.res]
        /\ UNCHANGED <<now, rows, agg, pc, loc>>

NextFaults ==
    \/ \E payment \in FaultedPayments, fault \in WriteFaults :
          CreatePaymentFaulted(payment, fault)
    \/ \E payment \in FaultedPayments, fault \in WriteFaults :
          UpdatePaymentFaulted(payment, fault)
    \/ \E st \in PaymentStatuses, amt \in {None, Some(50)}, fault \in WriteFaults :
          UpdatePaymentStatusFaulted("PMT-1", st, amt, fault)
    \/ DeletePayment("PMT-1")
    \/ Tick

SpecFaults == Init /\ [][NextFaults]_vars

\* this step is a create_payment, update_payment or update_payment_status
\* that returns an error
WriteReturnsError ==
    /\ now' = now
    /\ call'.op \in {"create_payment", "update_payment", "update_payment_status"}
    /\ ~call'.res.ok

\* C35 as stated: whenever create_payment, update_payment or
\* update_payment_status returns an error, the store is exactly as it was
\* before the call, wherever the call failed, the re-read after the commit
\* included.
C35_ErrorLeavesStoreUnchanged ==
    [][WriteReturnsError => db' = db]_vars

\* what the transactions give: a call that fails before its commit has
\* succeeded leaves the store as it was
ErrorBeforeCommitLeavesStoreUnchanged ==
    [][(WriteReturnsError /\ call'.fault # "reread") => db' = db]_vars

\* a call whose commit failed has returned an error with the store unchanged
CommitFailureSeen ==
    /\ call.op \in {"create_payment", "update_payment", "update_payment_status"}
    /\ call.fault = "commit"
    /\ call.res = Err(DatabaseError)

-----------------------------------------------------------------------------
(* update_payment with a payment that changes dates only *)

DateId == "PMT-1"
PaymentDates == {DT(0, 0), DT(5, 0)}
DueDates == {None, Some(DT(9, 0))}

\* the installments a caller lists: none, one, two
DatedInstallments ==
    {<<>>,
     <<Inst("INST-A", DateId, 50, DT(0, 0))>>,
     <<Inst("INST-A", DateId, 50, DT(0, 0)), Inst("INST-B", DateId, 50, DT(0, 0))>>}

\* payments given to update_payment: those of one id that differ in status,
\* dates and installments
DatedPayments ==
    {[SvcPayment(DateId, 100, st) EXCEPT !.payment_date = pd, !.due_date = dd,
                                         !.installments = is]
     : st \in PaymentStatuses, pd \in PaymentDates, dd \in DueDates,
       is \in DatedInstallments}

\* payments given to create_payment
CreatedPayments == {SvcPayment(DateId, 100, st) : st \in PaymentStatuses}

NextDates ==
    \/ \E payment \in CreatedPayments : CreatePayment(payment, "none")
    \/ \E payment \in DatedPayments : UpdatePayment(payment)
    \/ \E amount \in PoolAmounts : AddInstallment(DateId, amount)
    \/ GetPaymentById(DateId)
    \/ Tick

SpecDates == Init /\ [][NextDates]_vars

\* payment is a valid payment that differs from the payment stored under its
\* id in payment_date or due_date, and in nothing else that is compared
DiffersFromStoredInDatesOnly(payment, d) ==
    /\ validate_payment(payment).ok
    /\ LogicallyIdenticalToStored(payment, d)
    /\ \E p \in d.payments :
          /\ p.id = payment.id
          /\ \/ p.payment_date # PaymentRow(payment).payment_date
             \/ p.due_date # PaymentRow(payment).due_date

\* the call wrote nothing, returned the payment the store holds, and the
\* stored dates are the old ones
NothingWrittenExistingReturned ==
    /\ ~call'.wrote
    /\ db' = db
    /\ call'.res \in find_by_id(db, call'.id)

\* C36 as stated: update_payment(p) where p differs from the stored payment
\* only in due_date or payment_date performs no store write, returns the
\* existing payment and leaves the stored due_date and payment_date as they
\* were.
C36_DatesOnlyWritesNothing ==
    [][(/\ call'.op = "update_payment"
        /\ now' = now
        /\ DiffersFromStoredInDatesOnly(call'.arg, db)) =>
           NothingWrittenExistingReturned]_vars

\* the same when the cache holds no entry for the id that differs from the
\* stored payment: it holds
DatesOnlyWritesNothingWhenCoherent ==
    [][(/\ call'.op = "update_payment"
        /\ now' = now
        /\ DiffersFromStoredInDatesOnly(call'.arg, db)
        /\ call'.id \in DOMAIN cache =>
               Ok(cache[call'.id].payment) \in find_by_id(db, call'.id)) =>
           NothingWrittenExistingReturned]_vars

\* update_payment was given other dates for a payment whose cache entry
\* agrees with the store, and returned the stored payment with its own dates
DatesOnlyUpdateSeen ==
    /\ call.op = "update_payment"
    /\ call.res.ok
    /\ ~call.wrote
    /\ DiffersFromStoredInDatesOnly(call.arg, db)
    /\ call.res.val.payment_date # call.arg.payment_date

-----------------------------------------------------------------------------
(* The letter case of the filters of get_all_payments *)

\* filters that validate_filters accepts: none, and a status or a method in
\* its stored spelling and in lower case
CaseFilterInputs ==
    {None,
     Some("status" :> "LUNAS"),
     Some("status" :> "lunas"),
     Some("method" :> "CASH"),
     Some("method" :> "cash"),
     Some(("status" :> "lunas") @@ ("method" :> "CASH")),
     Some("status" :> "CICILAN")}

NextFilters ==
    \/ \E payment \in CreateInputs : CreatePayment(payment, "none")
    \/ \E st \in PaymentStatuses : UpdatePaymentStatus("PMT-1", st, None)
    \/ \E id \in PaymentIds : DeletePayment(id)
    \/ \E filters \in CaseFilterInputs : GetAllPayments(filters)
    \/ Tick

SpecFilters == Init /\ [][NextFilters]_vars

\* what parse_payment_status and parse_payment_method give for a text they
\* accept: the value whose stored text is the text in upper case
StatusOfText(text) ==
    CHOOSE st \in PaymentStatuses : StatusToString(st) = to_uppercase(text)
MethodOfText(text) ==
    CHOOSE m \in PaymentMethods : MethodToString(m) = to_uppercase(text)

\* the stored payments whose status and method are the values the filter
\* values parse to
SelectedByParsedValues(d, filters) ==
    IF filters = None THEN d.payments
    ELSE LET filter_map == filters[1]
         IN {row \in d.payments :
               /\ "status" \in DOMAIN filter_map =>
                     row.status = StatusToString(StatusOfText(filter_map["status"]))
               /\ "method" \in DOMAIN filter_map =>
                     row.method = MethodToString(MethodOfText(filter_map["method"]))
               /\ "transaction_id" \in DOMAIN filter_map =>
                     row.transaction_id = filter_map["transaction_id"]}

ReturnedIds(c) == {c.res.val[k].id : k \in DOMAIN c.res.val}

\* C37 as stated: for every filter map get_all_payments accepts, the result
\* is every stored payment whose status and method equal the values that
\* parse_payment_status and parse_payment_method give for the filter values,
\* whatever the letter case of the filter values.
C37_FiltersSelectByParsedValue ==
    (call.op = "get_all_payments" /\ call.res.ok) =>
        ReturnedIds(call) = {row.id : row \in SelectedByParsedValues(db, call.filters)}

\* what the query does: it compares the stored text with the filter value
\* as the caller wrote it
FiltersSelectByGivenText ==
    (call.op = "get_all_payments" /\ call.res.ok) =>
        ReturnedIds(call) = {row.id : row \in Selected(db, call.filters)}

\* a status filter in its stored spelling has selected the one payment by
\* installments among two stored payments
GivenTextSelectionSeen ==
    /\ call.op = "get_all_payments"
    /\ call.filters = Some("status" :> "CICILAN")
    /\ call.res.ok
    /\ ReturnedIds(call) = {"PMT-1"}
    /\ Cardinality(db.payments) = 2

-----------------------------------------------------------------------------
(* Calls that wait for a connection *)

\* the index of the id Uuid::new_v4() gives the installment that worker w
\* adds: another one for every worker
FreshIdOf(w) == IF w = Adder THEN 0 ELSE 1

\* add_installment, its amount positive, the first call of a worker
WaitStartAdd(w, amount) ==
    /\ pc[w] = "idle" /\ loc[w].n = 0
    /\ pc' = [pc EXCEPT ![w] = "get_cache"]
    /\ loc' = [loc EXCEPT ![w] = [op |-> "add_installment", n |-> loc[w].n + 1,
                                  held |-> <<>>, phase |-> "check",
                                  amount |-> amount,
                                  inst_id |-> UuidInstId(FreshIdOf(w)),
                                  payment_date |-> DT(now, 0)]]
    /\ UNCHANGED <<db, cache, now, uuid, call, rows, agg>>

\* a step of the call of worker w that takes no connection from the pool
\* (the clock stands still: no entry of the cache expires)
RunStep(w) ==
    \/ PoolGetCache(w)
    \/ PoolGetFind(w)
    \/ PoolGetStore(w)
    \/ \E fault \in DeleteFaults : PoolDeleteTx(w, fault)
    \/ PoolDeleteUncache(w)
    \/ PoolAddInsert(w)

NextWait ==
    \/ \E w \in Workers, amount \in PoolAmounts : WaitStartAdd(w, amount)
    \/ PoolStartDelete(Deleter)
    \/ \E w \in Workers : RunStep(w)
    \/ \E w \in Workers : PoolAcquire(w)
    \/ \E w \in Workers : PoolAcquireFail(w)
    \/ PoolClearCache

SpecWait == InitPool /\ [][NextWait]_vars

\* fair scheduling: a call that can run runs, and the pool hands a
\* connection it has to a call that waits for one
FairWait ==
    /\ SpecWait
    /\ \A w \in Workers : WF_vars(RunStep(w)) /\ WF_vars(PoolAcquire(w))

\* the same, and a wait for a connection that lasts gives up with an error
FairWaitTimeout ==
    /\ FairWait
    /\ \A w \in Workers : WF_vars(PoolAcquireFail(w))

AllWaitHolding ==
    /\ IdleConnections = 0
    /\ \A w \in Workers :
          /\ pc[w] = "get_acquire"
          /\ loc[w].held = <<"add_installment.conn">>

\* a call that waits for a connection while it holds one
WaitsHolding == \E w \in Workers : pc[w] \in AcquireSteps /\ loc[w].held # <<>>

\* what holds without the timeout: calls that never hold a connection while
\* they wait (get_payment_by_id alone, delete_payment) cannot block each
\* other; a blocked state is one in which every call waits holding
BlockedOnlyWaitingHolding ==
    (/\ IdleConnections = 0
     /\ \A w \in Workers : pc[w] \in AcquireSteps) => AllWaitHolding

====
